---- MODULE Spec2Model ----
(***************************************************************************)
(* Carspital Sensei API (sensei_BOSS.py): the keyword template matcher     *)
(* (query_knowledge_base), the road-network boda pricing                   *)
(* (calculate_boda_pricing), the price estimator                           *)
(* (calculate_price_estimate) and the diagnose request handler, over the   *)
(* static catalog tables.                                                  *)
(*                                                                         *)
(* Python str values are TLA+ strings; Len, SubSeq and \o act on them      *)
(* character by character.  Python float values are IEEE-754 doubles,      *)
(* modelled bit-exactly (see the Double section).                          *)
(***************************************************************************)
EXTENDS Integers, Sequences, FiniteSets, TLC

VARIABLES
  pc,            \* "call" before the operation under study ran, "done" after
  match_in,      \* query_knowledge_base: the user_input argument
  match_ret,     \* query_knowledge_base: the returned dict
  boda_in,       \* calculate_boda_pricing: the location and time_of_day arguments
  boda_ret,      \* calculate_boda_pricing: the returned dict
  est_in,        \* calculate_price_estimate: the arguments
  est_ret,       \* calculate_price_estimate: the returned dict (or None)
  diag_in,       \* diagnose: the request body
  diag_ret,      \* diagnose: the status code and the body of the response
  kb,            \* the knowledge base a caller holds across several calls
  calls,         \* the calls made on kb so far: operation, arguments, result
  reqs           \* the diagnose requests in progress: the handler's locals

vars == <<pc, match_in, match_ret, boda_in, boda_ret, est_in, est_ret, diag_in, diag_ret,
          kb, calls, reqs>>

\* Python None, and the value of a variable no operation has written yet.
None == [type |-> "None"]

-----------------------------------------------------------------------------
(* Python str operations *)

UpperChars == "ABCDEFGHIJKLMNOPQRSTUVWXYZ"
LowerChars == "abcdefghijklmnopqrstuvwxyz"

LowerMap == [c \in {SubSeq(UpperChars, i, i) : i \in 1..Len(UpperChars)} |->
               LET i == CHOOSE j \in 1..Len(UpperChars) : SubSeq(UpperChars, j, j) = c
               IN SubSeq(LowerChars, i, i)]

\* str.lower() of one character (ASCII letters; everything else is kept)
LowerChar(c) == IF c \in DOMAIN LowerMap THEN LowerMap[c] ELSE c

\* str.lower()
RECURSIVE Lower(_)
Lower(s) ==
  IF Len(s) = 0 THEN ""
  ELSE LowerChar(SubSeq(s, 1, 1)) \o Lower(SubSeq(s, 2, Len(s)))

\* Python `k in t` for two strings: k occurs in t as a contiguous substring
Contains(t, k) ==
  \E i \in 1..(Len(t) - Len(k) + 1) : SubSeq(t, i, i + Len(k) - 1) = k

-----------------------------------------------------------------------------
(* load_diagnostic_templates: the 50 templates, in catalog order.  Only the *)
(* fields the matcher and its callers branch on are kept.                  *)

Templates ==
  <<
    [id |-> "battery_dead", keywords |-> <<"won't start", "clicking sound", "dashboard lights dim", "headlights weak", "jump start">>,
     recommended_service |-> "mobile_mechanic", urgent |-> TRUE, price_service |-> "battery_replacement", confidence |-> "HIGH"],
    [id |-> "battery_intermittent", keywords |-> <<"sometimes won't start", "starts after few tries", "morning start problem">>,
     recommended_service |-> "mobile_mechanic", urgent |-> FALSE, price_service |-> "diagnostic_scan", confidence |-> "MEDIUM"],
    [id |-> "engine_overheat", keywords |-> <<"temperature gauge high", "steam from hood", "engine hot", "coolant warning">>,
     recommended_service |-> "mobile_mechanic", urgent |-> TRUE, price_service |-> "radiator", confidence |-> "HIGH"],
    [id |-> "brake_noise", keywords |-> <<"squeaking brakes", "grinding noise", "brake sound">>,
     recommended_service |-> "mobile_mechanic", urgent |-> FALSE, price_service |-> "brake_pads", confidence |-> "HIGH"],
    [id |-> "brake_soft", keywords |-> <<"soft brake pedal", "spongy brakes", "brake goes to floor">>,
     recommended_service |-> "mobile_mechanic", urgent |-> TRUE, price_service |-> "brake_pads", confidence |-> "MEDIUM"],
    [id |-> "alternator_failure", keywords |-> <<"battery light on", "lights dimming", "radio cutting out", "dashboard flickering">>,
     recommended_service |-> "mobile_mechanic", urgent |-> FALSE, price_service |-> "alternator", confidence |-> "HIGH"],
    [id |-> "starter_motor", keywords |-> <<"clicking but won't turn over", "engine not cranking", "starter click">>,
     recommended_service |-> "mobile_mechanic", urgent |-> TRUE, price_service |-> "starter_motor", confidence |-> "MEDIUM"],
    [id |-> "transmission_slip", keywords |-> <<"gears slipping", "transmission not shifting", "delayed engagement", "burning smell">>,
     recommended_service |-> "car_specific", urgent |-> FALSE, price_service |-> "transmission", confidence |-> "LOW"],
    [id |-> "oil_leak", keywords |-> <<"oil under car", "oil dripping", "oil smell", "low oil">>,
     recommended_service |-> "mobile_mechanic", urgent |-> FALSE, price_service |-> "oil_change", confidence |-> "MEDIUM"],
    [id |-> "flat_tire", keywords |-> <<"flat tire", "tire puncture", "tire pressure low", "tire warning light">>,
     recommended_service |-> "mobile_mechanic", urgent |-> TRUE, price_service |-> "diagnostic_scan", confidence |-> "HIGH"],
    [id |-> "engine_misfire", keywords |-> <<"engine shaking", "rough idle", "check engine light", "loss of power">>,
     recommended_service |-> "mobile_mechanic", urgent |-> FALSE, price_service |-> "diagnostic_scan", confidence |-> "MEDIUM"],
    [id |-> "suspension_noise", keywords |-> <<"clunking noise", "rattling over bumps", "suspension noise">>,
     recommended_service |-> "mobile_mechanic", urgent |-> FALSE, price_service |-> "diagnostic_scan", confidence |-> "MEDIUM"],
    [id |-> "loud_exhaust", keywords |-> <<"loud exhaust", "exhaust noise", "rumbling sound">>,
     recommended_service |-> "mobile_mechanic", urgent |-> FALSE, price_service |-> "diagnostic_scan", confidence |-> "HIGH"],
    [id |-> "ac_not_cooling", keywords |-> <<"ac not cold", "air conditioning weak", "ac blowing warm">>,
     recommended_service |-> "car_specific", urgent |-> FALSE, price_service |-> "diagnostic_scan", confidence |-> "MEDIUM"],
    [id |-> "steering_heavy", keywords |-> <<"hard to steer", "heavy steering", "steering difficult">>,
     recommended_service |-> "mobile_mechanic", urgent |-> FALSE, price_service |-> "diagnostic_scan", confidence |-> "MEDIUM"],
    [id |-> "poor_fuel_economy", keywords |-> <<"using too much fuel", "bad mileage", "fuel consumption high">>,
     recommended_service |-> "mobile_mechanic", urgent |-> FALSE, price_service |-> "diagnostic_scan", confidence |-> "LOW"],
    [id |-> "window_stuck", keywords |-> <<"window won't roll up", "power window not working", "window stuck">>,
     recommended_service |-> "mobile_mechanic", urgent |-> FALSE, price_service |-> "diagnostic_scan", confidence |-> "MEDIUM"],
    [id |-> "check_engine_light", keywords |-> <<"check engine light", "engine warning light", "malfunction indicator">>,
     recommended_service |-> "mobile_mechanic", urgent |-> FALSE, price_service |-> "diagnostic_scan", confidence |-> "LOW"],
    [id |-> "car_wont_start_fuel", keywords |-> <<"won't start", "cranks but won't start", "turns over but won't start", "no fuel">>,
     recommended_service |-> "mobile_mechanic", urgent |-> TRUE, price_service |-> "diagnostic_scan", confidence |-> "MEDIUM"],
    [id |-> "headlights_dim", keywords |-> <<"dim headlights", "lights weak", "lights flickering">>,
     recommended_service |-> "mobile_mechanic", urgent |-> FALSE, price_service |-> "alternator", confidence |-> "MEDIUM"],
    [id |-> "coolant_leak", keywords |-> <<"coolant leak", "green fluid under car", "pink fluid leak", "radiator leak">>,
     recommended_service |-> "mobile_mechanic", urgent |-> TRUE, price_service |-> "radiator", confidence |-> "HIGH"],
    [id |-> "clutch_slipping", keywords |-> <<"clutch slipping", "revs high but car slow", "burning smell clutch">>,
     recommended_service |-> "car_specific", urgent |-> FALSE, price_service |-> "transmission", confidence |-> "HIGH"],
    [id |-> "abs_light", keywords |-> <<"abs light on", "abs warning", "brake light on">>,
     recommended_service |-> "mobile_mechanic", urgent |-> FALSE, price_service |-> "diagnostic_scan", confidence |-> "MEDIUM"],
    [id |-> "airbag_light", keywords |-> <<"airbag light", "srs light", "airbag warning">>,
     recommended_service |-> "car_specific", urgent |-> FALSE, price_service |-> "diagnostic_scan", confidence |-> "LOW"],
    [id |-> "loss_of_power", keywords |-> <<"loss of power", "car slow", "no acceleration", "sluggish">>,
     recommended_service |-> "mobile_mechanic", urgent |-> FALSE, price_service |-> "diagnostic_scan", confidence |-> "LOW"],
    [id |-> "black_smoke", keywords |-> <<"black smoke", "dark exhaust", "soot from exhaust">>,
     recommended_service |-> "mobile_mechanic", urgent |-> FALSE, price_service |-> "diagnostic_scan", confidence |-> "MEDIUM"],
    [id |-> "white_smoke", keywords |-> <<"white smoke", "steam from exhaust", "coolant smell">>,
     recommended_service |-> "car_specific", urgent |-> TRUE, price_service |-> "transmission", confidence |-> "HIGH"],
    [id |-> "blue_smoke", keywords |-> <<"blue smoke", "oil smoke", "burning oil smell">>,
     recommended_service |-> "car_specific", urgent |-> FALSE, price_service |-> "diagnostic_scan", confidence |-> "HIGH"],
    [id |-> "hard_to_start", keywords |-> <<"hard to start", "takes time to start", "slow crank">>,
     recommended_service |-> "mobile_mechanic", urgent |-> FALSE, price_service |-> "battery_replacement", confidence |-> "MEDIUM"],
    [id |-> "vibration_idle", keywords |-> <<"shaking at idle", "rough idle", "vibration when stopped">>,
     recommended_service |-> "mobile_mechanic", urgent |-> FALSE, price_service |-> "diagnostic_scan", confidence |-> "MEDIUM"],
    [id |-> "vibration_speed", keywords |-> <<"shaking at speed", "vibration highway", "wobble at 100km">>,
     recommended_service |-> "mobile_mechanic", urgent |-> FALSE, price_service |-> "diagnostic_scan", confidence |-> "HIGH"],
    [id |-> "knocking_engine", keywords |-> <<"knocking sound engine", "pinging", "detonation", "engine knock">>,
     recommended_service |-> "mobile_mechanic", urgent |-> FALSE, price_service |-> "diagnostic_scan", confidence |-> "MEDIUM"],
    [id |-> "grinding_noise", keywords |-> <<"grinding noise", "metal on metal", "scraping sound">>,
     recommended_service |-> "mobile_mechanic", urgent |-> TRUE, price_service |-> "brake_pads", confidence |-> "HIGH"],
    [id |-> "whistling_sound", keywords |-> <<"whistling sound", "high pitched noise", "squealing belt">>,
     recommended_service |-> "mobile_mechanic", urgent |-> FALSE, price_service |-> "diagnostic_scan", confidence |-> "HIGH"],
    [id |-> "radio_cutting_out", keywords |-> <<"radio cuts out", "electronics flickering", "dashboard resets">>,
     recommended_service |-> "mobile_mechanic", urgent |-> FALSE, price_service |-> "alternator", confidence |-> "MEDIUM"],
    [id |-> "power_steering_leak", keywords |-> <<"power steering leak", "red fluid leak", "steering fluid low">>,
     recommended_service |-> "mobile_mechanic", urgent |-> FALSE, price_service |-> "diagnostic_scan", confidence |-> "MEDIUM"],
    [id |-> "transmission_leak", keywords |-> <<"transmission leak", "red fluid under car", "gearbox leak">>,
     recommended_service |-> "car_specific", urgent |-> FALSE, price_service |-> "transmission", confidence |-> "HIGH"],
    [id |-> "oxygen_sensor", keywords |-> <<"check engine light", "o2 sensor", "oxygen sensor", "emissions">>,
     recommended_service |-> "mobile_mechanic", urgent |-> FALSE, price_service |-> "diagnostic_scan", confidence |-> "MEDIUM"],
    [id |-> "diesel_hard_start", keywords |-> <<"diesel hard to start", "glow plugs", "white smoke diesel", "diesel cold start">>,
     recommended_service |-> "car_specific", urgent |-> FALSE, price_service |-> "diagnostic_scan", confidence |-> "HIGH"],
    [id |-> "diesel_smoke", keywords |-> <<"black smoke diesel", "excessive diesel smoke">>,
     recommended_service |-> "car_specific", urgent |-> FALSE, price_service |-> "diagnostic_scan", confidence |-> "MEDIUM"],
    [id |-> "hybrid_warning", keywords |-> <<"hybrid warning light", "triangle warning", "hybrid battery", "ready light">>,
     recommended_service |-> "car_specific", urgent |-> FALSE, price_service |-> "diagnostic_scan", confidence |-> "LOW"],
    [id |-> "tpms_light", keywords |-> <<"tire pressure light", "tpms warning", "low tire pressure">>,
     recommended_service |-> "mobile_mechanic", urgent |-> FALSE, price_service |-> "diagnostic_scan", confidence |-> "HIGH"],
    [id |-> "key_fob_not_working", keywords |-> <<"key fob dead", "remote not working", "keyless entry failed">>,
     recommended_service |-> "mobile_mechanic", urgent |-> FALSE, price_service |-> "diagnostic_scan", confidence |-> "HIGH"],
    [id |-> "maf_sensor", keywords |-> <<"rough idle", "hesitation", "poor acceleration", "black smoke", "high fuel consumption">>,
     recommended_service |-> "mobile_mechanic", urgent |-> FALSE, price_service |-> "diagnostic_scan", confidence |-> "MEDIUM"],
    [id |-> "timing_belt", keywords |-> <<"timing belt", "engine wont start after service", "ticking sound engine">>,
     recommended_service |-> "car_specific", urgent |-> TRUE, price_service |-> "transmission", confidence |-> "HIGH"],
    [id |-> "wiper_not_working", keywords |-> <<"wipers not working", "windshield wipers dead", "wiper motor">>,
     recommended_service |-> "mobile_mechanic", urgent |-> FALSE, price_service |-> "diagnostic_scan", confidence |-> "HIGH"],
    [id |-> "fuel_smell", keywords |-> <<"smell gas", "fuel smell", "petrol smell", "fuel leak">>,
     recommended_service |-> "mobile_mechanic", urgent |-> TRUE, price_service |-> "diagnostic_scan", confidence |-> "HIGH"],
    [id |-> "catalytic_converter", keywords |-> <<"rotten egg smell", "loss of power", "check engine light", "rattling under car">>,
     recommended_service |-> "car_specific", urgent |-> FALSE, price_service |-> "diagnostic_scan", confidence |-> "MEDIUM"],
    [id |-> "wheel_bearing", keywords |-> <<"humming noise", "grinding noise wheels", "rumbling sound", "noise increases with speed">>,
     recommended_service |-> "mobile_mechanic", urgent |-> FALSE, price_service |-> "diagnostic_scan", confidence |-> "HIGH"],
    [id |-> "heater_not_working", keywords |-> <<"heater not working", "no hot air", "ac only cold", "heating broken">>,
     recommended_service |-> "car_specific", urgent |-> FALSE, price_service |-> "diagnostic_scan", confidence |-> "MEDIUM"]
  >>

-----------------------------------------------------------------------------
(* query_knowledge_base *)

\* ScanKeywords with the score capped at one (a flag instead of a counter)
RECURSIVE ScanKeywords_capped(_, _, _, _)
ScanKeywords_capped(keywords, i, user_input_lower, acc) ==
  IF i > Len(keywords) THEN acc
  ELSE IF Contains(user_input_lower, Lower(keywords[i]))
       THEN ScanKeywords_capped(keywords, i + 1, user_input_lower,
                                [match_score |-> 1,
                                 matched_keywords |-> Append(acc.matched_keywords, keywords[i])])
       ELSE ScanKeywords_capped(keywords, i + 1, user_input_lower, acc)

\* the inner loop over template['keywords']: counts and collects, in keyword
\* order, the keywords whose lowercase form occurs in the lowercased input
RECURSIVE ScanKeywords(_, _, _, _)
ScanKeywords(keywords, i, user_input_lower, acc) ==
  IF i > Len(keywords) THEN acc
  ELSE IF Contains(user_input_lower, Lower(keywords[i]))
       THEN ScanKeywords(keywords, i + 1, user_input_lower,
                         [match_score |-> acc.match_score + 1,
                          matched_keywords |-> Append(acc.matched_keywords, keywords[i])])
       ELSE ScanKeywords(keywords, i + 1, user_input_lower, acc)

\* ScanTemplates keeping the templates that matched no keyword
\* (match_score >= 0 instead of match_score > 0)
RECURSIVE ScanTemplates_keepzero(_, _, _, _)
ScanTemplates_keepzero(templates, i, user_input_lower, template_matches) ==
  IF i > Len(templates) THEN template_matches
  ELSE LET r == ScanKeywords(templates[i].keywords, 1, user_input_lower,
                             [match_score |-> 0, matched_keywords |-> <<>>])
       IN ScanTemplates_keepzero(templates, i + 1, user_input_lower,
                                 Append(template_matches,
                                        [template |-> templates[i],
                                         score |-> r.match_score,
                                         matched_keywords |-> r.matched_keywords]))

\* the outer loop over knowledge_base['templates']: one entry per template
\* with match_score > 0, in catalog order
RECURSIVE ScanTemplates(_, _, _, _)
ScanTemplates(templates, i, user_input_lower, template_matches) ==
  IF i > Len(templates) THEN template_matches
  ELSE LET r == ScanKeywords(templates[i].keywords, 1, user_input_lower,
                             [match_score |-> 0, matched_keywords |-> <<>>])
       IN IF r.match_score > 0
          THEN ScanTemplates(templates, i + 1, user_input_lower,
                             Append(template_matches,
                                    [template |-> templates[i],
                                     score |-> r.match_score,
                                     matched_keywords |-> r.matched_keywords]))
          ELSE ScanTemplates(templates, i + 1, user_input_lower, template_matches)

\* InsertByScore of a sort that puts the later of two equal scores first
\* (what reversing an ascending stable sort would do)
RECURSIVE InsertByScore_unstable(_, _)
InsertByScore_unstable(sorted, x) ==
  IF sorted = <<>> THEN <<x>>
  ELSE IF Head(sorted).score > x.score
       THEN <<Head(sorted)>> \o InsertByScore_unstable(Tail(sorted), x)
       ELSE <<x>> \o sorted

\* list.sort(key=score, reverse=True) is stable: an entry is placed after
\* every entry already there whose score is greater than or equal to its own
RECURSIVE InsertByScore(_, _)
InsertByScore(sorted, x) ==
  IF sorted = <<>> THEN <<x>>
  ELSE IF Head(sorted).score >= x.score
       THEN <<Head(sorted)>> \o InsertByScore(Tail(sorted), x)
       ELSE <<x>> \o sorted

RECURSIVE SortByScore(_, _, _)
SortByScore(matches, i, sorted) ==
  IF i > Len(matches) THEN sorted
  ELSE SortByScore(matches, i + 1, InsertByScore(sorted, matches[i]))

query_knowledge_base(text, templates) ==
  LET user_input_lower == Lower(text)
      template_matches == SortByScore(ScanTemplates(templates, 1, user_input_lower, <<>>), 1, <<>>)
  IN IF template_matches = <<>>
     THEN [status |-> "DATA_MISSING", confidence |-> "N/A"]
     ELSE LET best_match == template_matches[1]
          IN [status |-> "SUCCESS",
              template |-> best_match.template,
              confidence |-> best_match.template.confidence,
              matched_keywords |-> best_match.matched_keywords]


-----------------------------------------------------------------------------
(* Python float: IEEE-754 binary64.  A finite non-negative double is        *)
(* mant * 2^exp with mant < 2^53.  mant is kept as a natural number in      *)
(* little-endian limbs of LimbBits bits, since it exceeds the integers      *)
(* TLC computes with; it is odd or zero, so that equal values are equal     *)
(* records.  Multiplication rounds to nearest, ties to even, as the         *)
(* hardware does; none of the values here overflows or is subnormal.        *)

LimbBits == 13
LimbBase == 8192
MantBits == 53

RECURSIVE Pow2(_)
Pow2(n) == IF n = 0 THEN 1 ELSE 2 * Pow2(n - 1)

RECURSIVE BigNorm(_)
BigNorm(a) ==
  IF a = <<>> THEN <<>>
  ELSE IF a[Len(a)] = 0 THEN BigNorm(SubSeq(a, 1, Len(a) - 1)) ELSE a

RECURSIVE BigFromInt(_)
BigFromInt(n) ==
  IF n = 0 THEN <<>> ELSE <<n % LimbBase>> \o BigFromInt(n \div LimbBase)

RECURSIVE BigToInt(_)
BigToInt(a) ==
  IF a = <<>> THEN 0 ELSE Head(a) + LimbBase * BigToInt(Tail(a))

RECURSIVE BigAddC(_, _, _)
BigAddC(a, b, carry) ==
  IF a = <<>> /\ b = <<>> THEN (IF carry = 0 THEN <<>> ELSE <<carry>>)
  ELSE LET x == IF a = <<>> THEN 0 ELSE Head(a)
           y == IF b = <<>> THEN 0 ELSE Head(b)
           s == x + y + carry
       IN <<s % LimbBase>> \o
          BigAddC(IF a = <<>> THEN <<>> ELSE Tail(a),
                  IF b = <<>> THEN <<>> ELSE Tail(b), s \div LimbBase)

BigAdd(a, b) == BigAddC(a, b, 0)

RECURSIVE BigMulLimb(_, _, _)
BigMulLimb(a, d, carry) ==
  IF a = <<>> THEN (IF carry = 0 THEN <<>> ELSE <<carry>>)
  ELSE LET p == Head(a) * d + carry
       IN <<p % LimbBase>> \o BigMulLimb(Tail(a), d, p \div LimbBase)

RECURSIVE BigMul(_, _)
BigMul(a, b) ==
  IF b = <<>> \/ a = <<>> THEN <<>>
  ELSE BigNorm(BigAdd(BigMulLimb(a, Head(b), 0),
                      IF Tail(b) = <<>> THEN <<>> ELSE <<0>> \o BigMul(a, Tail(b))))

RECURSIVE SmallBitLen(_)
SmallBitLen(n) == IF n = 0 THEN 0 ELSE 1 + SmallBitLen(n \div 2)

\* number of significant bits of a normalised natural
BigBitLen(a) ==
  IF a = <<>> THEN 0 ELSE (Len(a) - 1) * LimbBits + SmallBitLen(a[Len(a)])

\* a \div 2
BigHalf(a) ==
  BigNorm([i \in 1..Len(a) |->
             (a[i] \div 2) + (IF i < Len(a) THEN (a[i + 1] % 2) * (LimbBase \div 2) ELSE 0)])

BigIsOdd(a) == a # <<>> /\ a[1] % 2 = 1

\* a \div 2^s, with the last bit shifted out (guard) and whether any bit
\* shifted out before it was set (sticky)
RECURSIVE BigShiftRight(_, _, _, _)
BigShiftRight(a, s, guard, sticky) ==
  IF s = 0 \/ a = <<>> THEN [q |-> a, guard |-> (IF s = 0 THEN guard ELSE FALSE),
                             sticky |-> (IF s = 0 THEN sticky ELSE sticky \/ guard)]
  ELSE IF s >= LimbBits
       THEN BigShiftRight(Tail(a), s - LimbBits,
                          Head(a) >= LimbBase \div 2,
                          sticky \/ guard \/ (Head(a) % (LimbBase \div 2) # 0))
       ELSE BigShiftRight(BigHalf(a), s - 1, BigIsOdd(a), sticky \/ guard)

\* the canonical record of mant * 2^exp: mant odd, or zero with exp 0
RECURSIVE DCanon(_, _)
DCanon(mant, exp) ==
  IF mant = <<>> THEN [mant |-> <<>>, exp |-> 0]
  ELSE IF BigIsOdd(mant) THEN [mant |-> mant, exp |-> exp]
  ELSE IF mant[1] = 0 THEN DCanon(Tail(mant), exp + LimbBits)
  ELSE DCanon(BigHalf(mant), exp + 1)

\* the double nearest to the natural n * 2^exp (round to nearest, ties to even)
DRound(n, exp) ==
  LET len == BigBitLen(n)
  IN IF len <= MantBits THEN DCanon(n, exp)
     ELSE LET sh == BigShiftRight(n, len - MantBits, FALSE, FALSE)
              up == sh.guard /\ (sh.sticky \/ BigIsOdd(sh.q))
          IN DCanon(IF up THEN BigAdd(sh.q, <<1>>) ELSE sh.q, exp + (len - MantBits))

\* float(n) for an int n, 0 <= n < 2^31: exact
IntToDouble(n) == DCanon(BigFromInt(n), 0)

\* a * b on two floats
FMul(a, b) == DRound(BigMul(a.mant, b.mant), a.exp + b.exp)

\* int(x) for a float x >= 0: truncation
DTrunc(x) ==
  IF x.exp >= 0 THEN BigToInt(x.mant) * Pow2(x.exp)
  ELSE BigToInt(BigShiftRight(x.mant, 0 - x.exp, FALSE, FALSE).q)

\* The float literals of load_pricing_matrix: the double nearest to each
\* decimal literal, as hexadecimal significand and binary exponent.
\* 1.0 = 0x1 * 2^0  (0x1.0000000000000p+0)
F_1_0 == [mant |-> <<1>>, exp |-> 0]
\* 1.2 = 0x13333333333333 * 2^-52  (0x1.3333333333333p+0)
F_1_2 == [mant |-> <<4915, 6553, 3276, 1638, 1>>, exp |-> -52]
\* 0.85 = 0x1B333333333333 * 2^-53  (0x1.b333333333333p-1)
F_0_85 == [mant |-> <<4915, 6553, 3276, 5734, 1>>, exp |-> -53]
\* 1.4 = 0xB333333333333 * 2^-51  (0x1.6666666666666p+0)
F_1_4 == [mant |-> <<4915, 6553, 3276, 5734>>, exp |-> -51]
\* 1.8 = 0x1CCCCCCCCCCCCD * 2^-52  (0x1.ccccccccccccdp+0)
F_1_8 == [mant |-> <<3277, 1638, 4915, 6553, 1>>, exp |-> -52]
\* 2.5 = 0x5 * 2^-1  (0x1.4000000000000p+1)
F_2_5 == [mant |-> <<5>>, exp |-> -1]
\* 1.5 = 0x3 * 2^-1  (0x1.8000000000000p+0)
F_1_5 == [mant |-> <<3>>, exp |-> -1]
\* 1.6 = 0xCCCCCCCCCCCCD * 2^-51  (0x1.999999999999ap+0)
F_1_6 == [mant |-> <<3277, 1638, 4915, 6553>>, exp |-> -51]
\* 1.3 = 0x14CCCCCCCCCCCD * 2^-52  (0x1.4cccccccccccdp+0)
F_1_3 == [mant |-> <<3277, 1638, 4915, 2457, 1>>, exp |-> -52]

-----------------------------------------------------------------------------
(* load_pricing_matrix.  A dict the code iterates over is a sequence of    *)
(* [key, value] entries in insertion order; a dict it only indexes is a    *)
(* function on its keys.                                                   *)

Zones ==
  <<
    [key |-> "premium", multiplier |-> F_1_2,
     areas |-> <<"Karen", "Westlands", "Runda", "Lavington", "Kileleshwa", "Muthaiga", "Spring Valley">>],
    [key |-> "middle", multiplier |-> F_1_0,
     areas |-> <<"South C", "South B", "Kilimani", "Parklands", "Langata", "Ngong Road", "Donholm", "Embakasi", "Kasarani">>],
    [key |-> "budget", multiplier |-> F_0_85,
     areas |-> <<"Kibera", "Eastlands", "Githurai", "Kayole", "Kawangware", "Mathare", "Umoja", "Dandora">>]
  >>

RoadNetwork ==
  <<
    [key |-> "mombasa_road",
     estates |-> <<
         [key |-> "0-5km", value |-> <<"Industrial Area", "South B", "South C", "Imara Daima">>],
         [key |-> "5-10km", value |-> <<"Mlolongo Gateway", "Syokimau", "Kitengela Gate">>],
         [key |-> "10-15km", value |-> <<"Athi River (near)", "Mlolongo Town">>],
         [key |-> "15-25km", value |-> <<"Kitengela", "Kajiado (outer limit)">>] >>,
     boda_pricing |->
         ("0-5km" :> <<150, 250>>) @@
         ("5-10km" :> <<300, 400>>) @@
         ("10-15km" :> <<500, 600>>) @@
         ("15-25km" :> <<700, 800>>),
     traffic_multiplier |-> [peak |-> F_1_5, normal |-> F_1_0]],
    [key |-> "waiyaki_way",
     estates |-> <<
         [key |-> "0-5km", value |-> <<"Westlands", "Parklands", "Mountain View", "Spring Valley">>],
         [key |-> "5-10km", value |-> <<"Kangemi", "Regen", "Uthiru">>],
         [key |-> "10-15km", value |-> <<"Kinoo", "Kikuyu">>],
         [key |-> "15-25km", value |-> <<"Limuru Road (outer limit)">>] >>,
     boda_pricing |->
         ("0-5km" :> <<150, 250>>) @@
         ("5-10km" :> <<300, 400>>) @@
         ("10-15km" :> <<500, 600>>) @@
         ("15-25km" :> <<700, 800>>),
     traffic_multiplier |-> [peak |-> F_1_6, normal |-> F_1_0]],
    [key |-> "ngong_road",
     estates |-> <<
         [key |-> "0-5km", value |-> <<"Kilimani", "Hurlingham", "Kileleshwa", "Lavington">>],
         [key |-> "5-10km", value |-> <<"Karen", "Runda", "Adams Arcade", "Junction">>],
         [key |-> "10-15km", value |-> <<"Ngong Town", "Kibiko">>],
         [key |-> "15-25km", value |-> <<"Rongai", "Kiserian (outer limit)">>] >>,
     boda_pricing |->
         ("0-5km" :> <<150, 250>>) @@
         ("5-10km" :> <<300, 400>>) @@
         ("10-15km" :> <<500, 600>>) @@
         ("15-25km" :> <<700, 800>>),
     traffic_multiplier |-> [peak |-> F_1_4, normal |-> F_1_0]],
    [key |-> "thika_road",
     estates |-> <<
         [key |-> "0-5km", value |-> <<"Muthaiga", "Parklands", "Eastleigh", "Pangani">>],
         [key |-> "5-10km", value |-> <<"Kasarani", "Githurai 44", "Zimmerman">>],
         [key |-> "10-15km", value |-> <<"Githurai 45", "Kahawa West", "Kahawa Sukari">>],
         [key |-> "15-25km", value |-> <<"Ruiru", "Juja (outer limit)">>] >>,
     boda_pricing |->
         ("0-5km" :> <<150, 250>>) @@
         ("5-10km" :> <<300, 400>>) @@
         ("10-15km" :> <<500, 600>>) @@
         ("15-25km" :> <<700, 800>>),
     traffic_multiplier |-> [peak |-> F_1_3, normal |-> F_1_0]],
    [key |-> "jogoo_road",
     estates |-> <<
         [key |-> "0-5km", value |-> <<"Makadara", "Kaloleni", "Shauri Moyo">>],
         [key |-> "5-10km", value |-> <<"Buruburu", "Umoja", "Donholm">>],
         [key |-> "10-15km", value |-> <<"Komarock", "Kayole", "Mihang'o">>],
         [key |-> "15-25km", value |-> <<"Ruai", "Kamulu (outer limit)">>] >>,
     boda_pricing |->
         ("0-5km" :> <<150, 200>>) @@
         ("5-10km" :> <<250, 350>>) @@
         ("10-15km" :> <<400, 500>>) @@
         ("15-25km" :> <<600, 700>>),
     traffic_multiplier |-> [peak |-> F_1_3, normal |-> F_1_0]],
    [key |-> "langata_road",
     estates |-> <<
         [key |-> "0-5km", value |-> <<"Kilimani", "Nairobi West", "Lang'ata">>],
         [key |-> "5-10km", value |-> <<"Karen", "Ongata Rongai">>],
         [key |-> "10-15km", value |-> <<"Tuala", "Kiserian">>],
         [key |-> "15-25km", value |-> <<"Ngong (outer limit)">>] >>,
     boda_pricing |->
         ("0-5km" :> <<150, 250>>) @@
         ("5-10km" :> <<300, 400>>) @@
         ("10-15km" :> <<500, 600>>) @@
         ("15-25km" :> <<700, 800>>),
     traffic_multiplier |-> [peak |-> F_1_3, normal |-> F_1_0]],
    [key |-> "outer_ring_road",
     estates |-> <<
         [key |-> "0-5km", value |-> <<"Enterprise Road", "Mombasa Road Junction", "Embakasi">>],
         [key |-> "5-10km", value |-> <<"Fedha", "Pipeline", "Donholm">>],
         [key |-> "10-15km", value |-> <<"Utawala", "Mihang'o", "Ruai Gate">>] >>,
     boda_pricing |->
         ("0-5km" :> <<150, 250>>) @@
         ("5-10km" :> <<300, 400>>) @@
         ("10-15km" :> <<500, 600>>),
     traffic_multiplier |-> [peak |-> F_1_4, normal |-> F_1_0]],
    [key |-> "eastern_bypass",
     estates |-> <<
         [key |-> "0-5km", value |-> <<"Embakasi", "Donholm", "Buruburu">>],
         [key |-> "5-10km", value |-> <<"Ruai", "Utawala", "Pipeline">>],
         [key |-> "10-20km", value |-> <<"Kamulu", "Joska (outer limit)">>] >>,
     boda_pricing |->
         ("0-5km" :> <<150, 250>>) @@
         ("5-10km" :> <<300, 400>>) @@
         ("10-20km" :> <<500, 700>>),
     traffic_multiplier |-> [peak |-> F_1_2, normal |-> F_1_0]]
  >>

CarCategories ==
  <<
    [key |-> "standard", multiplier |-> F_1_0,
     makes |-> <<"Toyota", "Nissan", "Honda", "Mazda", "Mitsubishi", "Suzuki", "Isuzu", "Daihatsu", "Datsun", "Chevrolet (Opel)", "Ford (Ranger, Everest)", "Hyundai", "Kia", "Peugeot", "Renault", "Mahindra", "Tata">>],
    [key |-> "premium", multiplier |-> F_1_4,
     makes |-> <<"Volkswagen", "Audi", "Subaru", "Volvo", "Jeep", "Land Rover (Defender, Discovery Sport)", "Lexus (RX, NX)", "Infiniti", "Acura", "Mini Cooper", "Alfa Romeo", "Saab">>],
    [key |-> "luxury", multiplier |-> F_1_8,
     makes |-> <<"BMW", "Mercedes-Benz", "Range Rover", "Porsche", "Jaguar", "Aston Martin", "Bentley", "Rolls-Royce", "Maserati", "Ferrari", "Lamborghini", "McLaren", "Maybach", "Lexus (LS, LX)", "Tesla", "Cadillac">>],
    [key |-> "exotic", multiplier |-> F_2_5,
     makes |-> <<"Bugatti", "Koenigsegg", "Pagani">>]
  >>

\* labor / parts_range are a list of two ints ([list |-> ...]) or the marker
\* string ([str |-> ...]); time_mins and note are returned unchanged and left out
Services ==
  ("battery_replacement" :> [labor |-> [list |-> <<1000, 4000>>], parts_range |-> [list |-> <<6500, 28000>>]]) @@
  ("oil_change" :> [labor |-> [list |-> <<2000, 8000>>], parts_range |-> [list |-> <<2000, 25000>>]]) @@
  ("brake_pads" :> [labor |-> [list |-> <<2500, 18000>>], parts_range |-> [list |-> <<4000, 20000>>]]) @@
  ("diagnostic_scan" :> [labor |-> [list |-> <<1500, 15000>>], parts_range |-> [list |-> <<0, 0>>]]) @@
  ("mobile_callout" :> [flat_fee |-> 500, boda_range |-> <<150, 800>>]) @@
  ("pick_and_drop" :> [pickup_boda |-> <<200, 800>>, return_boda |-> <<200, 800>>, service_fee |-> 500]) @@
  ("towing" :> [range |-> <<2500, 25000>>]) @@
  ("alternator" :> [labor |-> [list |-> <<4000, 8000>>], parts_range |-> [list |-> <<8000, 15000>>]]) @@
  ("starter_motor" :> [labor |-> [list |-> <<3500, 7000>>], parts_range |-> [list |-> <<6000, 12000>>]]) @@
  ("radiator" :> [labor |-> [list |-> <<5000, 10000>>], parts_range |-> [list |-> <<8000, 20000>>]]) @@
  ("transmission" :> [labor |-> [str |-> "DIAGNOSIS_REQUIRED"], parts_range |-> [str |-> "DIAGNOSIS_REQUIRED"],
                     note |-> "Too complex to estimate without inspection"]) @@
  ("engine_overhaul" :> [labor |-> [str |-> "DIAGNOSIS_REQUIRED"], parts_range |-> [str |-> "DIAGNOSIS_REQUIRED"],
                     note |-> "Major work requiring full diagnosis and quote"]) @@
  ("specialty_service" :> [labor |-> [str |-> "DIAGNOSIS_REQUIRED"], parts_range |-> [str |-> "DIAGNOSIS_REQUIRED"],
                     note |-> "Garage/specialist services need assessment first"])

-----------------------------------------------------------------------------
(* calculate_boda_pricing *)

UpperMap == [c \in {SubSeq(LowerChars, i, i) : i \in 1..Len(LowerChars)} |->
               LET i == CHOOSE j \in 1..Len(LowerChars) : SubSeq(LowerChars, j, j) = c
               IN SubSeq(UpperChars, i, i)]

\* str.upper() of one character
UpperChar(c) == IF c \in DOMAIN UpperMap THEN UpperMap[c] ELSE c

IsCased(c) == c \in DOMAIN LowerMap \/ c \in DOMAIN UpperMap

\* str.replace('_', ' ')
RECURSIVE ReplaceUnderscore(_)
ReplaceUnderscore(s) ==
  IF Len(s) = 0 THEN ""
  ELSE (IF SubSeq(s, 1, 1) = "_" THEN " " ELSE SubSeq(s, 1, 1))
       \o ReplaceUnderscore(SubSeq(s, 2, Len(s)))

\* str.title(): a cased character is uppercased after an uncased one (or at
\* the start) and lowercased after a cased one
RECURSIVE TitleFrom(_, _)
TitleFrom(s, prev_cased) ==
  IF Len(s) = 0 THEN ""
  ELSE LET c == SubSeq(s, 1, 1)
       IN (IF prev_cased THEN LowerChar(c) ELSE UpperChar(c))
          \o TitleFrom(SubSeq(s, 2, Len(s)), IsCased(c))

Title(s) == TitleFrom(s, FALSE)

\* AnyEstateMatches taking only an estate equal to the location
AnyEstateMatches_equal(estate_list, location_lower) ==
  \E k \in 1..Len(estate_list) : Lower(estate_list[k]) = location_lower

\* AnyEstateMatches testing one direction only (the estate inside the location)
AnyEstateMatches_oneway(estate_list, location_lower) ==
  \E k \in 1..Len(estate_list) : Contains(location_lower, Lower(estate_list[k]))

\* any(location_lower in estate.lower() or estate.lower() in location_lower
\*     for estate in estate_list)
AnyEstateMatches(estate_list, location_lower) ==
  \E k \in 1..Len(estate_list) :
     \/ Contains(Lower(estate_list[k]), location_lower)
     \/ Contains(location_lower, Lower(estate_list[k]))

\* ScanBands without the break: the last matching distance range wins
RECURSIVE ScanBands_last(_, _, _)
ScanBands_last(estates, j, location_lower) ==
  IF j > Len(estates) THEN None
  ELSE LET later == ScanBands_last(estates, j + 1, location_lower)
       IN IF later # None THEN later
          ELSE IF AnyEstateMatches(estates[j].value, location_lower)
               THEN [matched_distance_range |-> estates[j].key]
               ELSE None

\* the inner loop over estates.items(): the first distance range with a
\* matching estate, None when the loop ends without a break
RECURSIVE ScanBands(_, _, _)
ScanBands(estates, j, location_lower) ==
  IF j > Len(estates) THEN None
  ELSE IF AnyEstateMatches(estates[j].value, location_lower)
       THEN [matched_distance_range |-> estates[j].key]
       ELSE ScanBands(estates, j + 1, location_lower)

\* ScanRoads without the `if matched_road: break`: the last matching road wins
RECURSIVE ScanRoads_last(_, _, _)
ScanRoads_last(road_network, i, location_lower) ==
  IF i > Len(road_network) THEN None
  ELSE LET later == ScanRoads_last(road_network, i + 1, location_lower)
           m == ScanBands(road_network[i].estates, 1, location_lower)
       IN IF later # None THEN later
          ELSE IF m # None
               THEN [matched_road |-> road_network[i].key,
                     matched_distance_range |-> m.matched_distance_range,
                     road_data |-> road_network[i]]
               ELSE None

\* the outer loop over road_network.items(), left at the first road with a
\* matching band
RECURSIVE ScanRoads(_, _, _)
ScanRoads(road_network, i, location_lower) ==
  IF i > Len(road_network) THEN None
  ELSE LET m == ScanBands(road_network[i].estates, 1, location_lower)
       IN IF m # None
          THEN [matched_road |-> road_network[i].key,
                matched_distance_range |-> m.matched_distance_range,
                road_data |-> road_network[i]]
          ELSE ScanRoads(road_network, i + 1, location_lower)

\* dict.get(key, default)
DictGet(d, key, default) == IF key \in DOMAIN d THEN d[key] ELSE default

\* calculate_boda_pricing with one global traffic table (the first road's)
\* instead of the matched road's own
calculate_boda_pricing_global(loc, tod, road_network) ==
  LET location_lower == Lower(loc)
      m == ScanRoads(road_network, 1, location_lower)
  IN IF m = None
     THEN [boda_cost |-> <<300, 500>>,
           road |-> "unknown",
           distance_km |-> "estimated 10-15km",
           traffic_factor |-> F_1_0]
     ELSE LET road_data == m.road_data
              base_pricing == DictGet(road_data.boda_pricing, m.matched_distance_range, <<300, 500>>)
              traffic_mult == DictGet(road_network[1].traffic_multiplier, tod, F_1_0)
              adjusted_pricing == <<DTrunc(FMul(IntToDouble(base_pricing[1]), traffic_mult)),
                                    DTrunc(FMul(IntToDouble(base_pricing[2]), traffic_mult))>>
          IN [boda_cost |-> adjusted_pricing,
              road |-> Title(ReplaceUnderscore(m.matched_road)),
              distance_km |-> m.matched_distance_range,
              traffic_factor |-> traffic_mult]

calculate_boda_pricing(loc, tod, road_network) ==
  LET location_lower == Lower(loc)
      m == ScanRoads(road_network, 1, location_lower)
  IN IF m = None
     THEN [boda_cost |-> <<300, 500>>,
           road |-> "unknown",
           distance_km |-> "estimated 10-15km",
           traffic_factor |-> F_1_0]
     ELSE LET road_data == m.road_data
              base_pricing == DictGet(road_data.boda_pricing, m.matched_distance_range, <<300, 500>>)
              traffic_mult == DictGet(road_data.traffic_multiplier, tod, F_1_0)
              adjusted_pricing == <<DTrunc(FMul(IntToDouble(base_pricing[1]), traffic_mult)),
                                    DTrunc(FMul(IntToDouble(base_pricing[2]), traffic_mult))>>
          IN [boda_cost |-> adjusted_pricing,
              road |-> Title(ReplaceUnderscore(m.matched_road)),
              distance_km |-> m.matched_distance_range,
              traffic_factor |-> traffic_mult]

-----------------------------------------------------------------------------
(* calculate_price_estimate *)

\* [x.lower() for x in names]
LowerAll(names) == [k \in 1..Len(names) |-> Lower(names[k])]

\* ScanMultiplier with a substring test in place of list membership
RECURSIVE ScanMultiplier_substring(_, _, _, _)
ScanMultiplier_substring(table, i, name_lower, list_field) ==
  IF i > Len(table) THEN F_1_0
  ELSE IF \E k \in 1..Len(table[i][list_field]) :
             Contains(LowerAll(table[i][list_field])[k], name_lower)
       THEN table[i].multiplier
       ELSE ScanMultiplier_substring(table, i + 1, name_lower, list_field)

\* ScanMultiplier taking a name that an element of the list begins with
RECURSIVE ScanMultiplier_prefix(_, _, _, _)
ScanMultiplier_prefix(table, i, name_lower, list_field) ==
  IF i > Len(table) THEN F_1_0
  ELSE IF \E k \in 1..Len(table[i][list_field]) :
             LET entry == LowerAll(table[i][list_field])[k]
             IN Len(name_lower) <= Len(entry) /\ SubSeq(entry, 1, Len(name_lower)) = name_lower
       THEN table[i].multiplier
       ELSE ScanMultiplier_prefix(table, i + 1, name_lower, list_field)

\* the loop over pricing_matrix['zones'] / ['car_categories']: the multiplier
\* of the first entry whose list holds an element equal to the lowercased
\* name, 1.0 when the loop ends without a break
RECURSIVE ScanMultiplier(_, _, _, _)
ScanMultiplier(table, i, name_lower, list_field) ==
  IF i > Len(table) THEN F_1_0
  ELSE IF \E k \in 1..Len(table[i][list_field]) :
             LowerAll(table[i][list_field])[k] = name_lower
       THEN table[i].multiplier
       ELSE ScanMultiplier(table, i + 1, name_lower, list_field)

\* ZoneMult without zone.lower(): the name as given against the lowercased areas
ZoneMult_nolower(zone) == ScanMultiplier(Zones, 1, zone, "areas")

ZoneMult(zone) == ScanMultiplier(Zones, 1, Lower(zone), "areas")

CarMult(car_category) == ScanMultiplier(CarCategories, 1, Lower(car_category), "makes")

\* Python truthiness of the optional location argument: None and "" are false
\* Truthy taking every string, the empty one included, for a location
Truthy_notnone(loc) == loc # None

Truthy(loc) == loc # None /\ loc.str # ""

\* StandardEstimate with the car multiplier left out of the labor
StandardEstimate_nocar(service, zone, car_category) ==
  LET zone_mult == ZoneMult(zone)
      car_mult == CarMult(car_category)
      labor_cost ==
        [list |-> <<DTrunc(FMul(IntToDouble(service.labor.list[1]), zone_mult)),
                    DTrunc(FMul(IntToDouble(service.labor.list[2]), zone_mult))>>]
      parts_min == IF service.parts_range.list[1] > 0
                   THEN DTrunc(FMul(IntToDouble(service.parts_range.list[1]), car_mult)) ELSE 0
      parts_max == IF service.parts_range.list[2] > 0
                   THEN DTrunc(FMul(IntToDouble(service.parts_range.list[2]), car_mult)) ELSE 0
  IN [type |-> "standard",
      labor |-> labor_cost,
      parts_range |-> IF parts_max > 0 THEN [list |-> <<parts_min, parts_max>>] ELSE None,
      total_range |-> <<labor_cost.list[1] + parts_min,
                        IF parts_max > 0 THEN labor_cost.list[2] + parts_max ELSE labor_cost.list[2]>>]

\* StandardEstimate with the zone multiplier applied to the parts as well
StandardEstimate_zoneparts(service, zone, car_category) ==
  LET zone_mult == ZoneMult(zone)
      car_mult == CarMult(car_category)
      labor_cost ==
        [list |-> <<DTrunc(FMul(FMul(IntToDouble(service.labor.list[1]), zone_mult), car_mult)),
                    DTrunc(FMul(FMul(IntToDouble(service.labor.list[2]), zone_mult), car_mult))>>]
      parts_min == IF service.parts_range.list[1] > 0
                   THEN DTrunc(FMul(FMul(IntToDouble(service.parts_range.list[1]), zone_mult), car_mult))
                   ELSE 0
      parts_max == IF service.parts_range.list[2] > 0
                   THEN DTrunc(FMul(FMul(IntToDouble(service.parts_range.list[2]), zone_mult), car_mult))
                   ELSE 0
  IN [type |-> "standard",
      labor |-> labor_cost,
      parts_range |-> IF parts_max > 0 THEN [list |-> <<parts_min, parts_max>>] ELSE None,
      total_range |-> <<labor_cost.list[1] + parts_min,
                        IF parts_max > 0 THEN labor_cost.list[2] + parts_max ELSE labor_cost.list[2]>>]

\* StandardEstimate reporting the parts range even when its upper bound is 0
StandardEstimate_partszero(service, zone, car_category) ==
  LET zone_mult == ZoneMult(zone)
      car_mult == CarMult(car_category)
      labor_cost ==
        IF "list" \in DOMAIN service.labor
        THEN [list |-> <<DTrunc(FMul(FMul(IntToDouble(service.labor.list[1]), zone_mult), car_mult)),
                         DTrunc(FMul(FMul(IntToDouble(service.labor.list[2]), zone_mult), car_mult))>>]
        ELSE [int |-> DTrunc(FMul(FMul(IntToDouble(service.labor.int), zone_mult), car_mult))]
      parts_min == IF service.parts_range.list[1] > 0
                   THEN DTrunc(FMul(IntToDouble(service.parts_range.list[1]), car_mult)) ELSE 0
      parts_max == IF service.parts_range.list[2] > 0
                   THEN DTrunc(FMul(IntToDouble(service.parts_range.list[2]), car_mult)) ELSE 0
      total_min == IF "list" \in DOMAIN labor_cost
                   THEN labor_cost.list[1] + parts_min
                   ELSE labor_cost.int + parts_min
      total_max == IF "list" \in DOMAIN labor_cost
                   THEN (IF parts_max > 0 THEN labor_cost.list[2] + parts_max ELSE labor_cost.list[2])
                   ELSE (IF parts_max > 0 THEN labor_cost.int + parts_max ELSE labor_cost.int)
  IN [type |-> "standard",
      labor |-> labor_cost,
      parts_range |-> [list |-> <<parts_min, parts_max>>],
      total_range |-> <<total_min, total_max>>]

\* StandardEstimate with the test of the total's upper bound inverted: the
\* parts are added exactly when there are none
StandardEstimate_totalmax(service, zone, car_category) ==
  LET zone_mult == ZoneMult(zone)
      car_mult == CarMult(car_category)
      labor_cost ==
        IF "list" \in DOMAIN service.labor
        THEN [list |-> <<DTrunc(FMul(FMul(IntToDouble(service.labor.list[1]), zone_mult), car_mult)),
                         DTrunc(FMul(FMul(IntToDouble(service.labor.list[2]), zone_mult), car_mult))>>]
        ELSE [int |-> DTrunc(FMul(FMul(IntToDouble(service.labor.int), zone_mult), car_mult))]
      parts_min == IF service.parts_range.list[1] > 0
                   THEN DTrunc(FMul(IntToDouble(service.parts_range.list[1]), car_mult)) ELSE 0
      parts_max == IF service.parts_range.list[2] > 0
                   THEN DTrunc(FMul(IntToDouble(service.parts_range.list[2]), car_mult)) ELSE 0
      total_min == IF "list" \in DOMAIN labor_cost
                   THEN labor_cost.list[1] + parts_min
                   ELSE labor_cost.int + parts_min
      total_max == IF "list" \in DOMAIN labor_cost
                   THEN (IF parts_max > 0 THEN labor_cost.list[2] ELSE labor_cost.list[2] + parts_max)
                   ELSE (IF parts_max > 0 THEN labor_cost.int ELSE labor_cost.int + parts_max)
  IN [type |-> "standard",
      labor |-> labor_cost,
      parts_range |-> IF parts_max > 0 THEN [list |-> <<parts_min, parts_max>>] ELSE None,
      total_range |-> <<total_min, total_max>>]

\* the standard branch (lines 1407-1454)
StandardEstimate(service, zone, car_category) ==
  LET zone_mult == ZoneMult(zone)
      car_mult == CarMult(car_category)
      labor_cost ==
        IF "list" \in DOMAIN service.labor
        THEN [list |-> <<DTrunc(FMul(FMul(IntToDouble(service.labor.list[1]), zone_mult), car_mult)),
                         DTrunc(FMul(FMul(IntToDouble(service.labor.list[2]), zone_mult), car_mult))>>]
        ELSE [int |-> DTrunc(FMul(FMul(IntToDouble(service.labor.int), zone_mult), car_mult))]
      parts_min == IF service.parts_range.list[1] > 0
                   THEN DTrunc(FMul(IntToDouble(service.parts_range.list[1]), car_mult)) ELSE 0
      parts_max == IF service.parts_range.list[2] > 0
                   THEN DTrunc(FMul(IntToDouble(service.parts_range.list[2]), car_mult)) ELSE 0
      total_min == IF "list" \in DOMAIN labor_cost
                   THEN labor_cost.list[1] + parts_min
                   ELSE labor_cost.int + parts_min
      total_max == IF "list" \in DOMAIN labor_cost
                   THEN (IF parts_max > 0 THEN labor_cost.list[2] + parts_max ELSE labor_cost.list[2])
                   ELSE (IF parts_max > 0 THEN labor_cost.int + parts_max ELSE labor_cost.int)
  IN [type |-> "standard",
      labor |-> labor_cost,
      parts_range |-> IF parts_max > 0 THEN [list |-> <<parts_min, parts_max>>] ELSE None,
      total_range |-> <<total_min, total_max>>]

\* the diagnosis-required result (lines 1314-1321)
DiagnosisRequiredEstimate(service) ==
  [type |-> "DIAGNOSIS_REQUIRED",
   message |-> "This service requires professional diagnosis before pricing can be determined.",
   note |-> DictGet(service, "note", ""),
   recommendation |-> "Book a diagnostic scan first (KES 1,500-15,000)"]

\* MobileCalloutEstimate with the traffic factor applied to the flat fee too
MobileCalloutEstimate_feetraffic(service, loc, tod) ==
  IF Truthy(loc)
  THEN LET boda_info == calculate_boda_pricing(loc.str, tod, RoadNetwork)
           fee == DTrunc(FMul(IntToDouble(service.flat_fee), boda_info.traffic_factor))
       IN [type |-> "mobile_callout",
           flat_fee |-> service.flat_fee,
           boda_cost |-> boda_info.boda_cost,
           total_range |-> <<fee + boda_info.boda_cost[1], fee + boda_info.boda_cost[2]>>,
           location_details |-> [road |-> boda_info.road,
                                 distance |-> boda_info.distance_km,
                                 traffic_factor |-> boda_info.traffic_factor,
                                 time_of_day |-> tod]]
  ELSE [type |-> "mobile_callout",
        flat_fee |-> service.flat_fee,
        boda_range |-> service.boda_range]

\* the mobile_callout branch (lines 1324-1351)
MobileCalloutEstimate(service, loc, tod) ==
  IF Truthy(loc)
  THEN LET boda_info == calculate_boda_pricing(loc.str, tod, RoadNetwork)
       IN [type |-> "mobile_callout",
           flat_fee |-> service.flat_fee,
           boda_cost |-> boda_info.boda_cost,
           total_range |-> <<service.flat_fee + boda_info.boda_cost[1],
                             service.flat_fee + boda_info.boda_cost[2]>>,
           location_details |-> [road |-> boda_info.road,
                                 distance |-> boda_info.distance_km,
                                 traffic_factor |-> boda_info.traffic_factor,
                                 time_of_day |-> tod]]
  ELSE [type |-> "mobile_callout",
        flat_fee |-> service.flat_fee,
        boda_range |-> service.boda_range]

\* PickAndDropEstimate with a second lookup for the return leg, at normal
\* traffic, instead of the pickup's range reused
PickAndDropEstimate_twolookups(service, loc, tod) ==
  IF Truthy(loc)
  THEN LET boda_info == calculate_boda_pricing(loc.str, tod, RoadNetwork)
           pickup_cost == boda_info.boda_cost
           return_cost == calculate_boda_pricing(loc.str, "normal", RoadNetwork).boda_cost
           total_min == pickup_cost[1] + return_cost[1] + service.service_fee
           total_max == pickup_cost[2] + return_cost[2] + service.service_fee
       IN [type |-> "pick_and_drop",
           breakdown |-> [pickup_boda |-> pickup_cost,
                          return_boda |-> return_cost,
                          service_fee |-> service.service_fee],
           total_range |-> <<total_min, total_max>>,
           location_details |-> [road |-> boda_info.road,
                                 distance |-> boda_info.distance_km,
                                 traffic_factor |-> boda_info.traffic_factor,
                                 time_of_day |-> tod]]
  ELSE [type |-> "pick_and_drop",
        breakdown |-> [pickup_boda |-> service.pickup_boda,
                       return_boda |-> service.return_boda,
                       service_fee |-> service.service_fee],
        total_range |-> <<service.pickup_boda[1] + service.return_boda[1] + service.service_fee,
                          service.pickup_boda[2] + service.return_boda[2] + service.service_fee>>]

\* the pick_and_drop branch (lines 1353-1397)
PickAndDropEstimate(service, loc, tod) ==
  IF Truthy(loc)
  THEN LET boda_info == calculate_boda_pricing(loc.str, tod, RoadNetwork)
           pickup_cost == boda_info.boda_cost
           return_cost == boda_info.boda_cost
           total_min == pickup_cost[1] + return_cost[1] + service.service_fee
           total_max == pickup_cost[2] + return_cost[2] + service.service_fee
       IN [type |-> "pick_and_drop",
           breakdown |-> [pickup_boda |-> pickup_cost,
                          return_boda |-> return_cost,
                          service_fee |-> service.service_fee],
           total_range |-> <<total_min, total_max>>,
           location_details |-> [road |-> boda_info.road,
                                 distance |-> boda_info.distance_km,
                                 traffic_factor |-> boda_info.traffic_factor,
                                 time_of_day |-> tod]]
  ELSE LET pickup_min == service.pickup_boda[1]
           pickup_max == service.pickup_boda[2]
           return_min == service.return_boda[1]
           return_max == service.return_boda[2]
           total_min == pickup_min + return_min + service.service_fee
           total_max == pickup_max + return_max + service.service_fee
       IN [type |-> "pick_and_drop",
           breakdown |-> [pickup_boda |-> <<pickup_min, pickup_max>>,
                          return_boda |-> <<return_min, return_max>>,
                          service_fee |-> service.service_fee],
           total_range |-> <<total_min, total_max>>]

\* calculate_price_estimate scaling the towing range by the zone multiplier
calculate_price_estimate_towingzoned(service_key, zone, car_category, loc, tod) ==
  IF service_key \notin DOMAIN Services THEN None
  ELSE LET service == Services[service_key]
       IN IF "labor" \in DOMAIN service /\ service.labor = [str |-> "DIAGNOSIS_REQUIRED"]
          THEN DiagnosisRequiredEstimate(service)
          ELSE IF service_key = "mobile_callout"
          THEN MobileCalloutEstimate(service, loc, tod)
          ELSE IF service_key = "pick_and_drop"
          THEN PickAndDropEstimate(service, loc, tod)
          ELSE IF service_key = "towing"
          THEN [type |-> "towing",
                range |-> <<DTrunc(FMul(IntToDouble(service.range[1]), ZoneMult(zone))),
                            DTrunc(FMul(IntToDouble(service.range[2]), ZoneMult(zone)))>>]
          ELSE StandardEstimate(service, zone, car_category)

\* calculate_price_estimate treating a service priced only after diagnosis
\* as one it has no price for
calculate_price_estimate_nomarker(service_key, zone, car_category, loc, tod) ==
  IF service_key \notin DOMAIN Services THEN None
  ELSE LET service == Services[service_key]
       IN IF "labor" \in DOMAIN service /\ service.labor = [str |-> "DIAGNOSIS_REQUIRED"]
          THEN None
          ELSE IF service_key = "mobile_callout"
          THEN MobileCalloutEstimate(service, loc, tod)
          ELSE IF service_key = "pick_and_drop"
          THEN PickAndDropEstimate(service, loc, tod)
          ELSE IF service_key = "towing"
          THEN [type |-> "towing", range |-> service.range]
          ELSE StandardEstimate(service, zone, car_category)

\* calculate_price_estimate falling back to the diagnostic scan's prices for
\* a key the services table does not hold
calculate_price_estimate_scandefault(service_key, zone, car_category, loc, tod) ==
  LET service == DictGet(Services, service_key, Services["diagnostic_scan"])
  IN IF "labor" \in DOMAIN service /\ service.labor = [str |-> "DIAGNOSIS_REQUIRED"]
     THEN DiagnosisRequiredEstimate(service)
     ELSE IF service_key = "mobile_callout"
     THEN MobileCalloutEstimate(service, loc, tod)
     ELSE IF service_key = "pick_and_drop"
     THEN PickAndDropEstimate(service, loc, tod)
     ELSE IF service_key = "towing"
     THEN [type |-> "towing", range |-> service.range]
     ELSE StandardEstimate(service, zone, car_category)

\* calculate_price_estimate whose diagnosis-required result quotes the
\* diagnostic scan at the caller's zone and car make
calculate_price_estimate_zonedscan(service_key, zone, car_category, loc, tod) ==
  IF service_key \notin DOMAIN Services THEN None
  ELSE LET service == Services[service_key]
       IN IF "labor" \in DOMAIN service /\ service.labor = [str |-> "DIAGNOSIS_REQUIRED"]
          THEN [type |-> "DIAGNOSIS_REQUIRED",
                message |-> "This service requires professional diagnosis before pricing can be determined.",
                note |-> DictGet(service, "note", ""),
                recommendation |->
                  StandardEstimate(Services["diagnostic_scan"], zone, car_category).total_range]
          ELSE IF service_key = "mobile_callout"
          THEN MobileCalloutEstimate(service, loc, tod)
          ELSE IF service_key = "pick_and_drop"
          THEN PickAndDropEstimate(service, loc, tod)
          ELSE IF service_key = "towing"
          THEN [type |-> "towing", range |-> service.range]
          ELSE StandardEstimate(service, zone, car_category)

calculate_price_estimate(service_key, zone, car_category, loc, tod) ==
  IF service_key \notin DOMAIN Services THEN None
  ELSE LET service == Services[service_key]
       IN IF "labor" \in DOMAIN service /\ service.labor = [str |-> "DIAGNOSIS_REQUIRED"]
          THEN DiagnosisRequiredEstimate(service)
          ELSE IF service_key = "mobile_callout"
          THEN MobileCalloutEstimate(service, loc, tod)
          ELSE IF service_key = "pick_and_drop"
          THEN PickAndDropEstimate(service, loc, tod)
          ELSE IF service_key = "towing"
          THEN [type |-> "towing", range |-> service.range]
          ELSE StandardEstimate(service, zone, car_category)

-----------------------------------------------------------------------------
(* diagnose *)

\* the request body (request.json): a record of the fields the handler
\* reads, each None when the key is absent and [str |-> s] when it holds s

\* data.get(key, default)
Get(data, key, default) == IF data[key] = None THEN default ELSE data[key].str

Digits == "0123456789"

IsDigit(c) == \E i \in 1..Len(Digits) : SubSeq(Digits, i, i) = c

DigitVal(c) == (CHOOSE i \in 1..Len(Digits) : SubSeq(Digits, i, i) = c) - 1

IsDigits(s) == Len(s) > 0 /\ \A i \in 1..Len(s) : IsDigit(SubSeq(s, i, i))

RECURSIVE ToNat(_)
ToNat(s) ==
  IF Len(s) = 0 THEN 0
  ELSE 10 * ToNat(SubSeq(s, 1, Len(s) - 1)) + DigitVal(SubSeq(s, Len(s), Len(s)))

\* str.strip() of the spaces around s
RECURSIVE StripSpaces(_)
StripSpaces(s) ==
  IF Len(s) > 0 /\ SubSeq(s, 1, 1) = " " THEN StripSpaces(SubSeq(s, 2, Len(s)))
  ELSE IF Len(s) > 0 /\ SubSeq(s, Len(s), Len(s)) = " " THEN StripSpaces(SubSeq(s, 1, Len(s) - 1))
  ELSE s

\* s without its underscores
RECURSIVE DropUnderscores(_)
DropUnderscores(s) ==
  IF Len(s) = 0 THEN ""
  ELSE (IF SubSeq(s, 1, 1) = "_" THEN "" ELSE SubSeq(s, 1, 1))
         \o DropUnderscores(SubSeq(s, 2, Len(s)))

\* int(s) of a str: surrounding spaces, an optional sign, decimal digits with
\* single underscores between them; anything else raises ValueError (ok FALSE)
IntParse(s) ==
  LET t == StripSpaces(s)
      signed == Len(t) > 0 /\ SubSeq(t, 1, 1) \in {"+", "-"}
      b == IF signed THEN SubSeq(t, 2, Len(t)) ELSE t
      wellformed ==
        /\ Len(b) > 0
        /\ IsDigit(SubSeq(b, 1, 1)) /\ IsDigit(SubSeq(b, Len(b), Len(b)))
        /\ \A i \in 1..Len(b) : IsDigit(SubSeq(b, i, i)) \/ SubSeq(b, i, i) = "_"
        /\ \A i \in 1..(Len(b) - 1) : ~(SubSeq(b, i, i) = "_" /\ SubSeq(b, i + 1, i + 1) = "_")
  IN IF ~wellformed THEN [ok |-> FALSE]
     ELSE LET n == ToNat(DropUnderscores(b))
          IN [ok |-> TRUE, value |-> IF signed /\ SubSeq(t, 1, 1) = "-" THEN 0 - n ELSE n]

IsLeapYear(y) == (y % 4 = 0 /\ y % 100 # 0) \/ y % 400 = 0

DaysInMonth(y, m) ==
  IF m = 2 THEN (IF IsLeapYear(y) THEN 29 ELSE 28)
  ELSE IF m \in {4, 6, 9, 11} THEN 30 ELSE 31

\* the time part after the date: a separator character and HH, HH:MM or
\* HH:MM:SS
TimeOfRest(rest) ==
  LET n == Len(rest)
      hh == SubSeq(rest, 2, 3)
      mm == SubSeq(rest, 5, 6)
      ss == SubSeq(rest, 8, 9)
  IN IF /\ n \in {3, 6, 9}
        /\ IsDigits(hh) /\ ToNat(hh) < 24
        /\ n >= 6 => (SubSeq(rest, 4, 4) = ":" /\ IsDigits(mm) /\ ToNat(mm) < 60)
        /\ n >= 9 => (SubSeq(rest, 7, 7) = ":" /\ IsDigits(ss) /\ ToNat(ss) < 60)
     THEN [ok |-> TRUE, hour |-> ToNat(hh)]
     ELSE [ok |-> FALSE]

\* datetime.fromisoformat(s) for the forms YYYY-MM-DD and YYYY-MM-DD followed
\* by a separator and HH[:MM[:SS]]: the hour of the datetime, or ok FALSE
\* where it raises ValueError
fromisoformat(s) ==
  LET yyyy == SubSeq(s, 1, 4)
      mo == SubSeq(s, 6, 7)
      dd == SubSeq(s, 9, 10)
  IN IF /\ Len(s) >= 10
        /\ IsDigits(yyyy) /\ SubSeq(s, 5, 5) = "-" /\ IsDigits(mo)
        /\ SubSeq(s, 8, 8) = "-" /\ IsDigits(dd)
        /\ ToNat(yyyy) >= 1
        /\ ToNat(mo) \in 1..12
        /\ ToNat(dd) \in 1..DaysInMonth(ToNat(yyyy), ToNat(mo))
     THEN IF Len(s) = 10 THEN [ok |-> TRUE, hour |-> 0]
          ELSE TimeOfRest(SubSeq(s, 11, Len(s)))
     ELSE [ok |-> FALSE]

\* lines 1508-1520: the time_of_day the handler prices with
EffectiveTimeOfDay(data) ==
  LET time_of_day == Get(data, "time_of_day", "normal")
  IN IF data.timestamp = None THEN time_of_day
     ELSE LET dt == fromisoformat(data.timestamp.str)
          IN IF dt.ok /\ ((7 <= dt.hour /\ dt.hour < 9) \/ (17 <= dt.hour /\ dt.hour < 19))
             THEN "peak"
             ELSE time_of_day

\* the services table without its car_specific entry
BusinessServices_nospecialist ==
  ("mobile_mechanic" :> [name |-> "Mobile Mechanic",
                         description |-> "Mechanic comes to your location for on-site repairs",
                         response_time |-> "30-60 minutes"]) @@
  ("pick_and_drop" :> [name |-> "Pick & Drop",
                       description |-> "We collect your car, repair at garage, return when ready",
                       response_time |-> "Same day pickup"])

\* kb['business_model']['services']
BusinessServices ==
  ("mobile_mechanic" :> [name |-> "Mobile Mechanic",
                         description |-> "Mechanic comes to your location for on-site repairs",
                         response_time |-> "30-60 minutes"]) @@
  ("pick_and_drop" :> [name |-> "Pick & Drop",
                       description |-> "We collect your car, repair at garage, return when ready",
                       response_time |-> "Same day pickup"]) @@
  ("car_specific" :> [name |-> "Car-Specific Specialist",
                      description |-> "Brand specialists (BMW, Toyota, Mercedes, etc.)",
                      response_time |-> "2-4 hours"])

CurrentYear == 2025

\* lines 1524-1531; the advisory text is kept as its kind and its numbers
YearContext(year, car_make) ==
  IF year = "" THEN None
  ELSE LET car_age == CurrentYear - IntParse(year).value
       IN IF car_age > 10 THEN [kind |-> "old", year |-> year, car_make |-> car_make, car_age |-> car_age]
          ELSE IF car_age > 5
               THEN [kind |-> "middle-aged", year |-> year, car_make |-> car_make, car_age |-> car_age]
          ELSE None

\* lines 1533-1541
MileageContext(mileage) ==
  IF mileage = "" THEN None
  ELSE LET mileage_int == IntParse(mileage).value
       IN IF mileage_int > 200000 THEN [kind |-> "high-wear", mileage_int |-> mileage_int]
          ELSE IF mileage_int > 150000 THEN [kind |-> "high-mileage", mileage_int |-> mileage_int]
          ELSE IF mileage_int > 100000 THEN [kind |-> "major-services", mileage_int |-> mileage_int]
          ELSE None

\* the except clause of the handler (lines 1601-1602)
ServerError(message, call) == [code |-> 500, body |-> [error |-> message], call |-> call]

\* the handler from line 1553 on, given the matched template and the call of
\* calculate_price_estimate made at line 1544: the response.  A template
\* stands for its texts (diagnosis, probable_causes, kenya_context, diy_*,
\* warning), which the response copies; the response's own timestamp,
\* datetime.now(), is left out.
DiagnoseRespond(data, template, matched_keywords, call) ==
  LET car_make == Get(data, "car_make", "Toyota")
      car_model == Get(data, "car_model", "")
      year == Get(data, "year", "")
      mileage == Get(data, "mileage", "")
      location == Get(data, "location", "Nairobi")
      service == template.recommended_service
  IN
  IF service \notin DOMAIN BusinessServices
  THEN ServerError("'" \o service \o "'", call)
  \* the import of line 1512 makes datetime a local name of the handler, bound
  \* only when the request has a timestamp; line 1596 reads it
  ELSE IF data.timestamp = None
  THEN ServerError("cannot access local variable 'datetime' where it is not associated with a value",
                   call)
  ELSE
  [code |-> 200,
   body |-> [status |-> "SUCCESS",
             car_details |-> [make |-> car_make, model |-> car_model, year |-> year,
                              mileage |-> mileage,
                              age_years |-> IF year # ""
                                            THEN [int |-> CurrentYear - IntParse(year).value]
                                            ELSE None,
                              location |-> location],
             diagnosis |-> [template |-> template.id,
                            confidence |-> template.confidence,
                            urgent |-> template.urgent,
                            matched_keywords |-> matched_keywords],
             recommendation |-> [service |-> service,
                                 service_name |-> BusinessServices[service].name,
                                 service_description |-> BusinessServices[service].description,
                                 response_time |-> BusinessServices[service].response_time],
             pricing |-> [estimate |-> call.result],
             context |-> [year |-> YearContext(year, car_make),
                          mileage |-> MileageContext(mileage)],
             booking_url |-> [service |-> service, problem |-> template.id,
                              make |-> car_make, model |-> car_model, year |-> year]],
   call |-> call]

\* the handler from line 1490 on, given the matcher's result: the status code
\* and the JSON body it returns, and the call of calculate_price_estimate it
\* made on the way (None when it made none)
DiagnoseMatched(data, diagnosis_result) ==
  IF diagnosis_result.status = "DATA_MISSING"
  THEN [code |-> 200,
        body |-> [status |-> "DATA_MISSING", confidence |-> "N/A",
                  booking_url |-> "/book-now?service=diagnostic"],
        call |-> None]
  ELSE
  LET car_make == Get(data, "car_make", "Toyota")
      year == Get(data, "year", "")
      mileage == Get(data, "mileage", "")
      location == Get(data, "location", "Nairobi")
      service_key == diagnosis_result.template.price_service
  IN
  IF year # "" /\ ~IntParse(year).ok
  THEN ServerError("invalid literal for int() with base 10: '" \o year \o "'", None)
  ELSE IF mileage # "" /\ ~IntParse(mileage).ok
  THEN ServerError("invalid literal for int() with base 10: '" \o mileage \o "'", None)
  ELSE
  DiagnoseRespond(data, diagnosis_result.template, diagnosis_result.matched_keywords,
                  [args |-> [service_key |-> service_key, zone |-> location,
                             car_category |-> car_make, location |-> [str |-> location],
                             time_of_day |-> EffectiveTimeOfDay(data)],
                   result |-> calculate_price_estimate(service_key, location, car_make,
                                                       [str |-> location],
                                                       EffectiveTimeOfDay(data))])

\* the handler (lines 1477-1602); query_knowledge_base runs once
diagnose(data) ==
  IF Get(data, "problem_description", "") = ""
  THEN [code |-> 400, body |-> [error |-> "problem_description is required"], call |-> None]
  ELSE CHOOSE r \in {DiagnoseMatched(data, diagnosis_result) :
                       diagnosis_result \in {query_knowledge_base(data.problem_description.str,
                                                                   Templates)}} : TRUE

-----------------------------------------------------------------------------
(* Inputs *)

\* the longest text is MaxParts fragments long
MaxParts == 3

\* pieces of free text: keywords shared by several templates, keywords in
\* upper case, a keyword completed by the next piece, and text with no keyword
TextFragments ==
  { "My car won't start", ", makes clicking sound", " GRINDING NOISE", " wheels",
    " metal on metal", " Check Engine Light", " rough idle", " hello there" }

RECURSIVE TextsOfParts(_)
TextsOfParts(n) ==
  IF n = 0 THEN {""}
  ELSE {t \o f : t \in TextsOfParts(n - 1), f \in TextFragments}

Texts == UNION {TextsOfParts(n) : n \in 0..MaxParts}

\* every estate name of the road table
AllEstates ==
  UNION {{RoadNetwork[i].estates[j].value[k] : k \in 1..Len(RoadNetwork[i].estates[j].value)} :
           <<i, j>> \in {<<i, j>> \in (1..Len(RoadNetwork)) \X (1..4) : j <= Len(RoadNetwork[i].estates)}}

\* the longest leading part of an estate name used as a location
MaxLocPrefix == 3

\* locations: every estate name as listed, in lower case, inside a longer
\* text, cut down to its first characters, and names of no estate
Locations ==
  AllEstates
    \cup {Lower(e) : e \in AllEstates}
    \cup {"near " \o e \o " stage" : e \in AllEstates}
    \cup {SubSeq(e, 1, n) : e \in AllEstates, n \in 1..MaxLocPrefix}
    \cup {"", "Nairobi", "Mars", "CBD", "Thika", "KAHAWA", "Upper Hill"}

TimesOfDay == {"peak", "normal", "night"}

-----------------------------------------------------------------------------
(* The operations.  Each specification draws the arguments of one call in  *)
(* its initial state and runs that call.                                   *)

InitMatch ==
  /\ pc = "call"
  /\ match_in \in Texts
  /\ match_ret = None
  /\ boda_in = [location |-> "", time_of_day |-> "normal"] /\ boda_ret = None
  /\ est_in = None /\ est_ret = None
  /\ diag_in = None /\ diag_ret = None
  /\ kb = None /\ calls = <<>> /\ reqs = <<>>

QueryKnowledgeBase ==
  /\ pc = "call"
  /\ match_ret' = query_knowledge_base(match_in, Templates)
  /\ pc' = "done"
  /\ UNCHANGED <<match_in, boda_in, boda_ret, est_in, est_ret, diag_in, diag_ret, kb, calls, reqs>>

SpecMatch == InitMatch /\ [][QueryKnowledgeBase]_vars

InitResolve ==
  /\ pc = "call"
  /\ boda_in \in [location : Locations, time_of_day : TimesOfDay]
  /\ boda_ret = None
  /\ match_in = "" /\ match_ret = None
  /\ est_in = None /\ est_ret = None
  /\ diag_in = None /\ diag_ret = None
  /\ kb = None /\ calls = <<>> /\ reqs = <<>>

CalculateBodaPricing ==
  /\ pc = "call"
  /\ boda_ret' = calculate_boda_pricing(boda_in.location, boda_in.time_of_day, RoadNetwork)
  /\ pc' = "done"
  /\ UNCHANGED <<match_in, match_ret, boda_in, est_in, est_ret, diag_in, diag_ret, kb, calls, reqs>>

SpecResolve == InitResolve /\ [][CalculateBodaPricing]_vars

\* every priced service, and keys the services table does not hold
ServiceKeys == DOMAIN Services \cup {"wheel_alignment", "Brake_Pads"}

\* zone strings: areas of each zone as listed and in another case, part of an
\* area name, and names of no area
ZoneInputs == {"Westlands", "karen", "South C", "KIBERA", "Umoja", "West", "Nairobi"}

\* car makes: makes of each category as listed and in another case, a brand
\* listed only with a qualifier, and a make of no category
CarInputs == {"Toyota", "toyota", "Audi", "BMW", "Tesla", "Bugatti", "Lexus", "Lexus (RX, NX)", "Trabant"}

\* the optional location argument: absent, empty, mapped and unmapped
LocationInputs ==
  {None, [str |-> ""], [str |-> "Westlands"], [str |-> "Kahawa Sukari"], [str |-> "Mars"]}

InitEstimate ==
  /\ pc = "call"
  /\ est_in \in [service_key : ServiceKeys, zone : ZoneInputs, car_category : CarInputs,
                 location : LocationInputs, time_of_day : TimesOfDay]
  /\ est_ret = None
  /\ match_in = "" /\ match_ret = None
  /\ boda_in = [location |-> "", time_of_day |-> "normal"] /\ boda_ret = None
  /\ diag_in = None /\ diag_ret = None
  /\ kb = None /\ calls = <<>> /\ reqs = <<>>

\* est_ret is wrapped so that a returned None differs from "not yet returned"
CalculatePriceEstimate ==
  /\ pc = "call"
  /\ est_ret' = [value |-> calculate_price_estimate(est_in.service_key, est_in.zone,
                                                    est_in.car_category, est_in.location,
                                                    est_in.time_of_day)]
  /\ pc' = "done"
  /\ UNCHANGED <<match_in, match_ret, boda_in, boda_ret, est_in, diag_in, diag_ret, kb, calls, reqs>>

SpecEstimate == InitEstimate /\ [][CalculatePriceEstimate]_vars

\* problem descriptions: absent, matching no template, matching a template
\* with a standard price and one that requires diagnosis
DescriptionInputs ==
  {None, [str |-> "hello there"], [str |-> "grinding noise"], [str |-> "gears slipping"]}

\* years: absent, of an old, a middle-aged and a recent car, and not a number
YearInputs == {None, [str |-> "2010"], [str |-> "2018"], [str |-> "2024"], [str |-> "abc"]}

MileageInputs == {None, [str |-> "120000"], [str |-> "12k"]}

\* timestamps: absent; in the morning and the evening peak, at the end of a
\* peak window, at noon and with no time; and strings fromisoformat rejects
TimestampInputs ==
  {None,
   [str |-> "2025-11-05T08:30:00"], [str |-> "2025-11-05 17:00"],
   [str |-> "2025-11-05T09:00:00"], [str |-> "2025-11-05T12"], [str |-> "2025-11-05"],
   [str |-> "garbage"], [str |-> "2025-02-30T08:00:00"], [str |-> "2025-11-05T25:00:00"]}

RequestInputs ==
  [problem_description : DescriptionInputs,
   car_make : {None, [str |-> "BMW"]},
   car_model : {None, [str |-> "Vitz"]},
   year : YearInputs,
   mileage : MileageInputs,
   location : {None, [str |-> "Westlands"]},
   time_of_day : {None, [str |-> "peak"], [str |-> "night"]},
   timestamp : TimestampInputs]

InitDiagnose ==
  /\ pc = "call"
  /\ diag_in \in RequestInputs
  /\ diag_ret = None
  /\ kb = None /\ calls = <<>> /\ reqs = <<>>
  /\ match_in = "" /\ match_ret = None
  /\ boda_in = [location |-> "", time_of_day |-> "normal"] /\ boda_ret = None
  /\ est_in = None /\ est_ret = None

\* est_in and est_ret take the handler's call of calculate_price_estimate
Diagnose ==
  /\ pc = "call"
  /\ \E r \in {diagnose(diag_in)} :
        /\ diag_ret' = [code |-> r.code, body |-> r.body]
        /\ IF r.call = None
           THEN UNCHANGED <<est_in, est_ret>>
           ELSE est_in' = r.call.args /\ est_ret' = [value |-> r.call.result]
  /\ pc' = "done"
  /\ UNCHANGED <<match_in, match_ret, boda_in, boda_ret, diag_in, kb, calls, reqs>>

SpecDiagnose == InitDiagnose /\ [][Diagnose]_vars

-----------------------------------------------------------------------------
(* Properties of query_knowledge_base (SpecMatch) *)

\* the keywords of template t (by position) that occur in the lowercased text
KeywordHits(t, text_lower) ==
  {k \in 1..Len(t.keywords) : Contains(text_lower, Lower(t.keywords[k]))}

\* the score of every template, by catalog position: the number of its
\* keywords that occur, case-insensitively, in text
ScoreVector(text) ==
  LET text_lower == Lower(text)
  IN [i \in 1..Len(Templates) |-> Cardinality(KeywordHits(Templates[i], text_lower))]

MaxOf(scores) ==
  CHOOSE s \in {scores[i] : i \in DOMAIN scores} : \A i \in DOMAIN scores : scores[i] <= s

\* catalog positions of the templates that reach the maximal score
TopOf(scores) == {i \in DOMAIN scores : scores[i] = MaxOf(scores)}

MatchDone == pc = "done" /\ match_ret # None

ScenarioAText == "My car won't start, makes clicking sound"

\* C1: when two or more templates reach the same maximal (positive) keyword
\* score for the input text, the template returned is the one of them that
\* comes first in catalog order.
C1_TieBreakEarliest ==
  MatchDone =>
    LET scores == ScoreVector(match_in)
        top == TopOf(scores)
    IN (MaxOf(scores) > 0 /\ Cardinality(top) >= 2)
         => /\ match_ret.status = "SUCCESS"
            /\ match_ret.template = Templates[CHOOSE i \in top : \A j \in top : i <= j]

\* a tie between battery_dead and car_wont_start_fuel ("won't start"), won by
\* battery_dead, the earlier of the two
C1_Witness ==
  /\ MatchDone
  /\ match_in = "My car won't start"
  /\ TopOf(ScoreVector(match_in)) = {1, 19}
  /\ match_ret.status = "SUCCESS"
  /\ match_ret.template.id = "battery_dead"

\* C2: a template's score is the uncapped number of its keywords occurring
\* case-insensitively in the text; when some template scores above 0 the
\* result is SUCCESS with a template of maximal score, that template's own
\* confidence and exactly its matched keywords (in keyword order); scenario A
\* returns battery_dead with confidence HIGH.
C2_MaxScoreSelection ==
  MatchDone =>
    LET scores == ScoreVector(match_in)
        text_lower == Lower(match_in)
    IN MaxOf(scores) > 0
         => /\ match_ret.status = "SUCCESS"
            /\ \E i \in 1..Len(Templates) :
                  /\ match_ret.template = Templates[i]
                  /\ scores[i] = MaxOf(scores)
            /\ match_ret.confidence = match_ret.template.confidence
            /\ match_ret.matched_keywords =
                  SelectSeq(match_ret.template.keywords,
                            LAMBDA k : Contains(text_lower, Lower(k)))
            /\ (match_in = ScenarioAText
                  => match_ret.template.id = "battery_dead" /\ match_ret.confidence = "HIGH")

\* a template that wins only because two of its keywords are counted:
\* grinding_noise (2) over the earlier brake_noise (1)
C2_Witness ==
  /\ MatchDone
  /\ match_in = " GRINDING NOISE metal on metal"
  /\ match_ret.status = "SUCCESS"
  /\ match_ret.template.id = "grinding_noise"
  /\ match_ret.matched_keywords = <<"grinding noise", "metal on metal">>

\* C3: the result is DATA_MISSING, an ordinary return value, exactly when the
\* text contains no keyword of any template.
C3_NoMatchDataMissing ==
  MatchDone =>
    /\ match_ret.status \in {"SUCCESS", "DATA_MISSING"}
    /\ (match_ret.status = "DATA_MISSING"
          <=> \A i \in 1..Len(Templates) : KeywordHits(Templates[i], Lower(match_in)) = {})

C3_Witness ==
  /\ MatchDone
  /\ match_in = " hello there wheels"
  /\ match_ret.status = "DATA_MISSING"

-----------------------------------------------------------------------------
(* Properties of calculate_boda_pricing (SpecResolve) *)

\* the road names as the API reports them (health_check, roads_covered), in
\* the order of the road table
RoadsCovered ==
  << "Mombasa Road", "Waiyaki Way", "Ngong Road", "Thika Road",
     "Jogoo Road", "Langata Road", "Outer Ring Road", "Eastern Bypass" >>

BandPositions ==
  {p \in (1..Len(RoadNetwork)) \X (1..4) : p[2] <= Len(RoadNetwork[p[1]].estates)}

EstatesAt(p) ==
  LET l == RoadNetwork[p[1]].estates[p[2]].value IN {l[k] : k \in 1..Len(l)}

BandKeyAt(p) == RoadNetwork[p[1]].estates[p[2]].key

\* bidirectional containment, case-insensitive
Akin(a, b) == Contains(Lower(a), Lower(b)) \/ Contains(Lower(b), Lower(a))

\* the (road, band) positions holding an estate akin to the location
AkinPositions(loc) == {p \in BandPositions : \E e \in EstatesAt(p) : Akin(loc, e)}

\* enumeration order: roads in table order, then bands in authored order
Before(p, q) == p[1] < q[1] \/ (p[1] = q[1] /\ p[2] < q[2])

ResolveDone == pc = "done" /\ boda_ret # None

\* C4 as stated: an estate name resolves to every road and band that lists it.
C4_BandCoverage_Original ==
  ResolveDone =>
    \A p \in BandPositions :
       boda_in.location \in EstatesAt(p)
         => boda_ret.road = RoadsCovered[p[1]] /\ boda_ret.distance_km = BandKeyAt(p)

\* C4 (amended): an estate name resolves to the road and band that list it,
\* unless an earlier band in enumeration order lists an estate that contains
\* it or is contained in it.
C4_BandCoverage ==
  ResolveDone =>
    \A p \in BandPositions :
       (/\ boda_in.location \in EstatesAt(p)
        /\ \A q \in AkinPositions(boda_in.location) : ~Before(q, p))
         => boda_ret.road = RoadsCovered[p[1]] /\ boda_ret.distance_km = BandKeyAt(p)

\* Parklands is listed under Waiyaki Way and again under Thika Road; it
\* resolves to Waiyaki Way, the first of the two
C4_Witness ==
  /\ ResolveDone
  /\ boda_in.location = "Parklands"
  /\ boda_in.location \in EstatesAt(<<2, 1>>) \cap EstatesAt(<<4, 1>>)
  /\ boda_ret.road = "Waiyaki Way"
  /\ boda_ret.distance_km = "0-5km"

\* C5: the road and band returned are those of the first position, in
\* enumeration order, that holds an estate containing the lowercased location
\* or contained in it.
C5_GreedyFirstMatch ==
  ResolveDone =>
    LET akin == AkinPositions(boda_in.location)
    IN akin # {} =>
         LET first == CHOOSE p \in akin : \A q \in akin : ~Before(q, p)
         IN boda_ret.road = RoadsCovered[first[1]] /\ boda_ret.distance_km = BandKeyAt(first)

\* "Kitengela" is listed at 15-25km of Mombasa Road but is contained in
\* "Kitengela Gate" of the earlier 5-10km band, which is returned
C5_Witness ==
  /\ ResolveDone
  /\ boda_in.location = "Kitengela"
  /\ AkinPositions(boda_in.location) = {<<1, 2>>, <<1, 4>>}
  /\ boda_ret.road = "Mombasa Road"
  /\ boda_ret.distance_km = "5-10km"

\* C6: a location akin to no estate of any road gets, whatever the time of
\* day, boda range [300,500], road "unknown" and traffic factor 1.0; road
\* "unknown" is returned for no other location.
C6_Fallback ==
  ResolveDone =>
    /\ (boda_ret.road = "unknown" <=> AkinPositions(boda_in.location) = {})
    /\ (AkinPositions(boda_in.location) = {}
          => /\ boda_ret.boda_cost = <<300, 500>>
             /\ boda_ret.traffic_factor = IntToDouble(1))

C6_Witness ==
  /\ ResolveDone
  /\ boda_in = [location |-> "Mars", time_of_day |-> "peak"]
  /\ boda_ret.road = "unknown"
  /\ boda_ret.boda_cost = <<300, 500>>

\* C7: on a match the traffic factor is the matched road's own multiplier for
\* "peak" or "normal" and 1.0 for any other time of day, and each bound of the
\* boda range is the band's base bound times that factor (a float product),
\* truncated to an integer.
C7_TrafficAdjustment ==
  ResolveDone =>
    LET akin == AkinPositions(boda_in.location)
    IN akin # {} =>
         LET first == CHOOSE p \in akin : \A q \in akin : ~Before(q, p)
             road == RoadNetwork[first[1]]
             base == road.boda_pricing[BandKeyAt(first)]
             factor == IF boda_in.time_of_day = "peak" THEN road.traffic_multiplier.peak
                       ELSE IF boda_in.time_of_day = "normal" THEN road.traffic_multiplier.normal
                       ELSE IntToDouble(1)
         IN /\ boda_ret.traffic_factor = factor
            /\ \A k \in 1..2 :
                  boda_ret.boda_cost[k] = DTrunc(FMul(IntToDouble(base[k]), factor))

\* Rongai at peak: Ngong Road's 1.4, not Mombasa Road's 1.5; the float
\* product 700 * 1.4 lies just below 980 and truncates to 979
C7_Witness ==
  /\ ResolveDone
  /\ boda_in = [location |-> "Rongai", time_of_day |-> "peak"]
  /\ boda_ret.road = "Ngong Road"
  /\ boda_ret.traffic_factor = F_1_4
  /\ boda_ret.boda_cost = <<979, 1120>>

-----------------------------------------------------------------------------
(* Properties of calculate_price_estimate (SpecEstimate) *)

EstimateDone == pc = "done" /\ est_ret # None

IsStandard(r) == r # None /\ r.type = "standard"

RECURSIVE BigShiftLeft(_, _)
BigShiftLeft(a, s) == IF s = 0 THEN a ELSE BigShiftLeft(BigMulLimb(a, 2, 0), s - 1)

\* a <= b on normalised naturals
RECURSIVE BigLeq(_, _)
BigLeq(a, b) ==
  IF Len(a) # Len(b) THEN Len(a) < Len(b)
  ELSE IF a = <<>> THEN TRUE
  ELSE IF a[Len(a)] # b[Len(b)] THEN a[Len(a)] < b[Len(b)]
  ELSE BigLeq(SubSeq(a, 1, Len(a) - 1), SubSeq(b, 1, Len(b) - 1))

\* a <= b on two floats
DLeq(a, b) ==
  LET e == IF a.exp < b.exp THEN a.exp ELSE b.exp
  IN BigLeq(BigShiftLeft(a.mant, a.exp - e), BigShiftLeft(b.mant, b.exp - e))

\* the multiplier of the entry of table whose list holds a name equal,
\* case-insensitively, to name; 1.0 when there is none
ListedMultiplier(table, list_field, name) ==
  LET holding == {i \in 1..Len(table) :
                    \E k \in 1..Len(table[i][list_field]) :
                       Lower(table[i][list_field][k]) = Lower(name)}
  IN IF holding = {} THEN IntToDouble(1)
     ELSE table[CHOOSE i \in holding : \A j \in holding : i <= j].multiplier

\* C8: for a standard service each labor bound is
\* trunc(labor_base * zone_multiplier * car_multiplier), each parts bound is
\* trunc(parts_base * car_multiplier) and each total bound is labor + parts
\* (float products); battery_replacement, Westlands, Toyota gives labor
\* [1200,4800], parts [6500,28000], total [7700,32800].
C8_StandardFormula ==
  (EstimateDone /\ IsStandard(est_ret.value)) =>
    LET r == est_ret.value
        service == Services[est_in.service_key]
        zone_multiplier == ListedMultiplier(Zones, "areas", est_in.zone)
        car_multiplier == ListedMultiplier(CarCategories, "makes", est_in.car_category)
        labor == [k \in 1..2 |->
                    DTrunc(FMul(FMul(IntToDouble(service.labor.list[k]), zone_multiplier),
                                car_multiplier))]
        parts == [k \in 1..2 |->
                    DTrunc(FMul(IntToDouble(service.parts_range.list[k]), car_multiplier))]
    IN /\ r.labor = [list |-> <<labor[1], labor[2]>>]
       /\ (r.parts_range # None => r.parts_range = [list |-> <<parts[1], parts[2]>>])
       /\ r.total_range = <<labor[1] + parts[1], labor[2] + parts[2]>>
       /\ (est_in.service_key = "battery_replacement" /\ est_in.zone = "Westlands"
             /\ est_in.car_category = "Toyota")
            => /\ r.labor = [list |-> <<1200, 4800>>]
               /\ r.parts_range = [list |-> <<6500, 28000>>]
               /\ r.total_range = <<7700, 32800>>

\* brake pads in a premium zone for a premium make: both multipliers act on
\* the labor (18000 * 1.2 * 1.4 is 30239 in floats), the car's alone on the parts
C8_Witness ==
  /\ EstimateDone
  /\ est_in.service_key = "brake_pads" /\ est_in.zone = "karen" /\ est_in.car_category = "Audi"
  /\ IsStandard(est_ret.value)
  /\ est_ret.value.labor = [list |-> <<4200, 30239>>]
  /\ est_ret.value.parts_range = [list |-> <<5600, 28000>>]
  /\ est_ret.value.total_range = <<9800, 58239>>

\* the result of the call of the current state with some arguments replaced
EstimateWith(zone, car_category) ==
  calculate_price_estimate(est_in.service_key, zone, car_category,
                           est_in.location, est_in.time_of_day)

\* C9: for a standard service, a call that differs only in the zone string
\* returns the same parts range.
C9_PartsZoneIndependent ==
  (EstimateDone /\ IsStandard(est_ret.value)) =>
    \A zone \in ZoneInputs :
       EstimateWith(zone, est_in.car_category).parts_range = est_ret.value.parts_range

\* a budget-zone call whose labor differs from the premium-zone call's while
\* the parts are the same
C9_Witness ==
  /\ EstimateDone
  /\ est_in.service_key = "oil_change" /\ est_in.zone = "KIBERA" /\ est_in.car_category = "BMW"
  /\ IsStandard(est_ret.value)
  /\ est_ret.value.parts_range = [list |-> <<3600, 45000>>]
  /\ EstimateWith("Westlands", "BMW").parts_range = est_ret.value.parts_range
  /\ EstimateWith("Westlands", "BMW").labor # est_ret.value.labor

\* the bounds of a [min, max] range
Lo(range) == Head(range)
Hi(range) == Head(Tail(range))

\* both bounds of range a are at most the corresponding bounds of range b
RangeLeq(a, b) == Lo(a) <= Lo(b) /\ Hi(a) <= Hi(b)

\* C10: for a standard service, a call whose zone multiplier (car multiplier)
\* is at least that of another call, the other multiplier being equal, has
\* both total bounds at least the other call's.
C10_MultiplierMonotone ==
  (EstimateDone /\ IsStandard(est_ret.value)) =>
    LET zm == ListedMultiplier(Zones, "areas", est_in.zone)
        cm == ListedMultiplier(CarCategories, "makes", est_in.car_category)
    IN /\ \A zone \in ZoneInputs :
            DLeq(ListedMultiplier(Zones, "areas", zone), zm)
              => RangeLeq(EstimateWith(zone, est_in.car_category).total_range,
                          est_ret.value.total_range)
       /\ \A car \in CarInputs :
            DLeq(ListedMultiplier(CarCategories, "makes", car), cm)
              => RangeLeq(EstimateWith(est_in.zone, car).total_range,
                          est_ret.value.total_range)

\* a premium-zone, luxury-make call above the middle-zone and the
\* standard-make call of the same service
C10_Witness ==
  /\ EstimateDone
  /\ est_in.service_key = "alternator" /\ est_in.zone = "Westlands" /\ est_in.car_category = "Tesla"
  /\ IsStandard(est_ret.value)
  /\ ~DLeq(ListedMultiplier(Zones, "areas", "Westlands"), ListedMultiplier(Zones, "areas", "South C"))
  /\ Lo(EstimateWith("South C", "Tesla").total_range) < Lo(est_ret.value.total_range)
  /\ Hi(EstimateWith("Westlands", "Toyota").total_range) < Hi(est_ret.value.total_range)

\* the traffic-adjusted boda range resolve returns for the call of the
\* current state
ResolvedBoda ==
  calculate_boda_pricing(est_in.location.str, est_in.time_of_day, RoadNetwork).boda_cost

\* C11: a mobile callout with a location has total range
\* [flat_fee + lo, flat_fee + hi] for the traffic-adjusted boda range [lo, hi]
\* resolve returns, and the flat fee is 500 whatever the location and the time
\* of day; "Westlands" at normal gives [650, 750], "Kahawa Sukari" at peak
\* gives boda [650, 780] and total [1150, 1280].
C11_MobileCalloutTotal ==
  (EstimateDone /\ est_in.service_key = "mobile_callout" /\ Truthy(est_in.location)) =>
    LET v == est_ret.value
        boda == ResolvedBoda
    IN /\ v.flat_fee = 500
       /\ v.boda_cost = boda
       /\ v.total_range = <<500 + Lo(boda), 500 + Hi(boda)>>
       /\ (est_in.location.str = "Westlands" /\ est_in.time_of_day = "normal")
            => v.total_range = <<650, 750>>
       /\ (est_in.location.str = "Kahawa Sukari" /\ est_in.time_of_day = "peak")
            => (v.boda_cost = <<650, 780>> /\ v.total_range = <<1150, 1280>>)

C11_Witness ==
  /\ EstimateDone
  /\ est_in.service_key = "mobile_callout"
  /\ est_in.location = [str |-> "Kahawa Sukari"] /\ est_in.time_of_day = "peak"
  /\ est_ret.value.boda_cost = <<650, 780>>
  /\ est_ret.value.total_range = <<1150, 1280>>

\* C12: for pick_and_drop with a location the pickup range and the return
\* range are both the boda range of one resolve call, and each total bound is
\* twice the boda bound plus the service fee, which no traffic factor touches.
C12_RoundTripSymmetry ==
  (EstimateDone /\ est_in.service_key = "pick_and_drop" /\ Truthy(est_in.location)) =>
    LET v == est_ret.value
        boda == ResolvedBoda
    IN /\ v.breakdown.pickup_boda = boda
       /\ v.breakdown.return_boda = boda
       /\ v.breakdown.service_fee = Services["pick_and_drop"].service_fee
       /\ v.total_range = <<2 * Lo(boda) + Services["pick_and_drop"].service_fee,
                            2 * Hi(boda) + Services["pick_and_drop"].service_fee>>

C12_Witness ==
  /\ EstimateDone
  /\ est_in.service_key = "pick_and_drop"
  /\ est_in.location = [str |-> "Kahawa Sukari"] /\ est_in.time_of_day = "peak"
  /\ est_ret.value.breakdown = [pickup_boda |-> <<650, 780>>, return_boda |-> <<650, 780>>,
                                service_fee |-> 500]
  /\ est_ret.value.total_range = <<1800, 2060>>

DiagnosisRequiredKeys == {"transmission", "engine_overhaul", "specialty_service"}

\* C13: for transmission, engine_overhaul and specialty_service the estimate
\* is the DIAGNOSIS_REQUIRED result, it carries no numeric range, and a call
\* with any other zone, car make, location and time of day returns the same
\* result.
C13_DiagnosisRequired ==
  (EstimateDone /\ est_in.service_key \in DiagnosisRequiredKeys) =>
    LET v == est_ret.value
    IN /\ v.type = "DIAGNOSIS_REQUIRED"
       /\ DOMAIN v = {"type", "message", "note", "recommendation"}
       /\ \A zone \in ZoneInputs, car_category \in CarInputs,
             loc \in LocationInputs, tod \in TimesOfDay :
            calculate_price_estimate(est_in.service_key, zone, car_category, loc, tod) = v
       /\ v.message \in STRING /\ v.note \in STRING /\ v.recommendation \in STRING

C13_Witness ==
  /\ EstimateDone
  /\ est_in = [service_key |-> "transmission", zone |-> "karen", car_category |-> "Audi",
               location |-> [str |-> "Kahawa Sukari"], time_of_day |-> "peak"]
  /\ est_ret.value.type = "DIAGNOSIS_REQUIRED"
  /\ est_ret.value = EstimateWith("Umoja", "Toyota")

C15_NoPartsTotalIsLabor ==
  (/\ EstimateDone
   /\ IsStandard(est_ret.value)
   /\ Hi(Services[est_in.service_key].parts_range.list) = 0) =>
    /\ est_ret.value.parts_range = None
    /\ est_ret.value.labor = [list |-> est_ret.value.total_range]

C15_Witness ==
  /\ EstimateDone
  /\ est_in.service_key = "diagnostic_scan" /\ est_in.zone = "karen" /\ est_in.car_category = "BMW"
  /\ Services["diagnostic_scan"].parts_range = [list |-> <<0, 0>>]
  /\ est_ret.value.parts_range = None
  /\ est_ret.value.labor = [list |-> <<3240, 32400>>]
  /\ est_ret.value.total_range = <<3240, 32400>>

\* C19: the zone multiplier is that of the zone whose area list holds a name
\* equal, case-insensitively, to the zone string and 1.0 when no area is equal
\* to it; the car multiplier likewise against the make lists; the call returns
\* an estimate for every string, recognised or not.
C19_MultipliersDefault ==
  (EstimateDone /\ est_in.service_key \in DOMAIN Services) =>
    /\ ZoneMult(est_in.zone) = ListedMultiplier(Zones, "areas", est_in.zone)
    /\ CarMult(est_in.car_category) = ListedMultiplier(CarCategories, "makes", est_in.car_category)
    /\ (\A i \in 1..Len(Zones) : \A k \in 1..Len(Zones[i].areas) :
          Lower(Zones[i].areas[k]) # Lower(est_in.zone)) => ZoneMult(est_in.zone) = F_1_0
    /\ (\A i \in 1..Len(CarCategories) : \A k \in 1..Len(CarCategories[i].makes) :
          Lower(CarCategories[i].makes[k]) # Lower(est_in.car_category))
         => CarMult(est_in.car_category) = F_1_0
    /\ est_ret.value # None
    /\ est_ret.value.type \in {"standard", "mobile_callout", "pick_and_drop", "towing",
                               "DIAGNOSIS_REQUIRED"}

C19_Witness ==
  /\ EstimateDone
  /\ est_in.service_key = "brake_pads" /\ est_in.zone = "West" /\ est_in.car_category = "Trabant"
  /\ ZoneMult("West") = F_1_0 /\ CarMult("Trabant") = F_1_0
  /\ ZoneMult("KIBERA") = F_0_85 /\ CarMult("toyota") = F_1_0 /\ CarMult("Lexus") = F_1_0
  /\ IsStandard(est_ret.value)
  /\ est_ret.value.labor = [list |-> Services["brake_pads"].labor.list]

Ordered(range) == Lo(range) <= Hi(range)

\* C20: every numeric range of the returned estimate (labor, parts, boda,
\* pickup, return, total, fixed range) has its lower bound at most its upper
\* bound.
C20_RangesOrdered ==
  (EstimateDone /\ est_ret.value # None) =>
    LET v == est_ret.value
    IN /\ ("labor" \in DOMAIN v /\ "list" \in DOMAIN v.labor) => Ordered(v.labor.list)
       /\ ("parts_range" \in DOMAIN v /\ v.parts_range # None) => Ordered(v.parts_range.list)
       /\ "boda_cost" \in DOMAIN v => Ordered(v.boda_cost)
       /\ "boda_range" \in DOMAIN v => Ordered(v.boda_range)
       /\ "breakdown" \in DOMAIN v =>
            (Ordered(v.breakdown.pickup_boda) /\ Ordered(v.breakdown.return_boda))
       /\ "total_range" \in DOMAIN v => Ordered(v.total_range)
       /\ "range" \in DOMAIN v => Ordered(v.range)

C20_Witness ==
  /\ EstimateDone
  /\ est_in.service_key = "battery_replacement" /\ est_in.zone = "South C" /\ est_in.car_category = "Bugatti"
  /\ IsStandard(est_ret.value)
  /\ Lo(est_ret.value.total_range) < Hi(est_ret.value.total_range)
  /\ Lo(est_ret.value.parts_range.list) < Hi(est_ret.value.parts_range.list)

-----------------------------------------------------------------------------
(* Properties of diagnose (SpecDiagnose) *)

DiagnoseDone == pc = "done" /\ diag_ret # None

\* the handler reached its call of calculate_price_estimate
Priced == est_in # None

IsPeakHour(hour) == (7 <= hour /\ hour < 9) \/ (17 <= hour /\ hour < 19)

\* C16: whenever the request carries a parseable timestamp, the time_of_day
\* used for pricing is "peak" if the timestamp's hour is in [7,9) or [17,19)
\* and "normal" otherwise, whatever time_of_day the request carries.
C16_TimestampOverride ==
  (/\ DiagnoseDone /\ Priced
   /\ diag_in.timestamp # None
   /\ fromisoformat(diag_in.timestamp.str).ok) =>
    est_in.time_of_day =
      IF IsPeakHour(fromisoformat(diag_in.timestamp.str).hour) THEN "peak" ELSE "normal"

\* C17: when the request's timestamp cannot be parsed, a request with a
\* problem description still succeeds, no error reaches the caller, and the
\* time_of_day used for pricing is the request's own if given and "normal"
\* otherwise.
C17_MalformedTimestampIgnored ==
  (/\ DiagnoseDone
   /\ Get(diag_in, "problem_description", "") # ""
   /\ diag_in.timestamp # None
   /\ ~fromisoformat(diag_in.timestamp.str).ok) =>
    /\ diag_ret.code = 200
    /\ "error" \notin DOMAIN diag_ret.body
    /\ Priced => est_in.time_of_day = Get(diag_in, "time_of_day", "normal")

\* what a response says of the matched template, the diagnosis and the price
\* estimate; None for a response that holds none of them
Findings(body) ==
  IF "diagnosis" \in DOMAIN body
  THEN [template |-> body.diagnosis.template, diagnosis |-> body.diagnosis,
        estimate |-> body.pricing.estimate]
  ELSE IF "status" \in DOMAIN body THEN [status |-> body.status]
  ELSE None

\* C18: a request that differs only in year, mileage or car_model (numeric or
\* not) gets a response with the same matched template, the same diagnosis
\* and the same price estimate.
C18_PassThroughFields ==
  DiagnoseDone =>
    \A year \in YearInputs, mileage \in MileageInputs, car_model \in {None, [str |-> "Vitz"]} :
       Findings(diagnose([diag_in EXCEPT !.year = year, !.mileage = mileage,
                                         !.car_model = car_model]).body)
         = Findings(diag_ret.body)

-----------------------------------------------------------------------------
(* Properties of the catalog *)

\* the price_service values the templates name
PriceServices == {Templates[i].price_service : i \in 1..Len(Templates)}

\* the estimate diagnose asks for (lines 1544-1551) when the request names
\* neither a car make nor a location
DefaultEstimate(service_key) ==
  calculate_price_estimate(service_key, "Nairobi", "Toyota", [str |-> "Nairobi"], "normal")

\* C21: every template's price_service is a key of the services table, and
\* for every text that matches a template the estimate asked for the matched
\* template's price_service is not None.
C21_CatalogIntegrity ==
  MatchDone =>
    /\ \A i \in 1..Len(Templates) : Templates[i].price_service \in DOMAIN Services
    /\ \A service_key \in PriceServices : DefaultEstimate(service_key) # None
    /\ match_ret.status = "SUCCESS"
         => /\ match_ret.template.price_service \in DOMAIN Services
            /\ DefaultEstimate(match_ret.template.price_service) # None

C21_Witness ==
  /\ MatchDone
  /\ match_in = ScenarioAText
  /\ match_ret.status = "SUCCESS"
  /\ match_ret.template.price_service = "battery_replacement"
  /\ DefaultEstimate("battery_replacement").type = "standard"
  /\ "transmission" \in PriceServices

-----------------------------------------------------------------------------
(* Properties of the special services *)

\* C24: with no location, or an empty one, mobile_callout returns the
\* service's static boda range [150, 800] and pick_and_drop returns its static
\* pickup and return ranges with total [pickup_lo + return_lo + service_fee,
\* pickup_hi + return_hi + service_fee]; the result holds nothing of a road
\* lookup and is the same at every time of day.
C24_StaticRangeWithoutLocation ==
  (EstimateDone /\ est_in.location \in {None, [str |-> ""]}
     /\ est_in.service_key \in {"mobile_callout", "pick_and_drop"}) =>
    LET v == est_ret.value
        service == Services[est_in.service_key]
    IN /\ "location_details" \notin DOMAIN v
       /\ "boda_cost" \notin DOMAIN v
       /\ \A tod \in TimesOfDay :
            calculate_price_estimate(est_in.service_key, est_in.zone, est_in.car_category,
                                     est_in.location, tod) = v
       /\ est_in.service_key = "mobile_callout"
            => /\ v.boda_range = <<150, 800>>
               /\ "total_range" \notin DOMAIN v
       /\ est_in.service_key = "pick_and_drop"
            => /\ v.breakdown.pickup_boda = service.pickup_boda
               /\ v.breakdown.return_boda = service.return_boda
               /\ v.total_range =
                    <<Lo(service.pickup_boda) + Lo(service.return_boda) + service.service_fee,
                      Hi(service.pickup_boda) + Hi(service.return_boda) + service.service_fee>>

C24_Witness ==
  /\ EstimateDone
  /\ est_in.service_key = "pick_and_drop"
  /\ est_in.location = [str |-> ""]
  /\ est_in.time_of_day = "peak"
  /\ est_ret.value.total_range = <<900, 2100>>

\* C25: for towing the estimate is the static range [2500, 25000] for every
\* zone, car make, location and time of day.
C25_TowingFixedRange ==
  (EstimateDone /\ est_in.service_key = "towing") =>
    /\ est_ret.value.type = "towing"
    /\ est_ret.value.range = <<2500, 25000>>

C25_Witness ==
  /\ EstimateDone
  /\ est_in.service_key = "towing"
  /\ est_in.zone = "karen" /\ est_in.car_category = "Bugatti"
  /\ est_in.location = [str |-> "Kahawa Sukari"] /\ est_in.time_of_day = "peak"
  /\ est_ret.value.range = <<2500, 25000>>

-----------------------------------------------------------------------------
(* Properties of the car-make lookup *)

\* brand names that the makes lists hold only with a qualifier or a suffix
BareBrands == {"Lexus", "Land Rover", "Ford", "Chevrolet", "Mercedes"}

StartsWith(str, prefix) ==
  Len(prefix) <= Len(str) /\ SubSeq(str, 1, Len(prefix)) = prefix

\* the categories whose makes list holds an entry beginning with the brand
ListedUnder(brand) ==
  {CarCategories[i].key : i \in {j \in 1..Len(CarCategories) :
      \E k \in 1..Len(CarCategories[j].makes) :
         StartsWith(Lower(CarCategories[j].makes[k]), Lower(brand))}}

\* a make gets a multiplier other than 1.0 only if it equals, ignoring case, a
\* whole entry of a makes list; each bare brand gets 1.0 and the labor, parts
\* and total of the standard make "Toyota"
WholeStringEquality ==
  /\ CarMult(est_in.car_category) # F_1_0
       => \E i \in 1..Len(CarCategories) : \E k \in 1..Len(CarCategories[i].makes) :
             Lower(CarCategories[i].makes[k]) = Lower(est_in.car_category)
  /\ est_in.car_category \in BareBrands
       => est_ret.value = EstimateWith(est_in.zone, "Toyota")
  /\ \A brand \in BareBrands :
       /\ CarMult(brand) = F_1_0
       /\ EstimateWith(est_in.zone, brand) = EstimateWith(est_in.zone, "Toyota")

\* C28 as stated: car-make lookup is whole-string equality, so the bare brand
\* names "Lexus", "Land Rover", "Ford", "Chevrolet" and "Mercedes" get car
\* multiplier 1.0 and the labor and parts of a standard make, although each of
\* these brands is listed under premium or luxury.
C28_BareBrandsListedHigher ==
  (EstimateDone /\ IsStandard(est_ret.value)) =>
    /\ WholeStringEquality
    /\ \A brand \in BareBrands : ListedUnder(brand) \cap {"premium", "luxury"} # {}

\* C28 amended: the same lookup and the same multiplier 1.0 for the five bare
\* brand names; "Lexus", "Land Rover" and "Mercedes" are listed, with a
\* qualifier, under premium or luxury, while "Ford" and "Chevrolet" are listed,
\* with a qualifier, under standard, whose multiplier is 1.0 as well.
C28_WholeStringEquality ==
  (EstimateDone /\ IsStandard(est_ret.value)) =>
    /\ WholeStringEquality
    /\ ListedUnder("Lexus") = {"premium", "luxury"}
    /\ ListedUnder("Land Rover") = {"premium"}
    /\ ListedUnder("Mercedes") = {"luxury"}
    /\ ListedUnder("Ford") = {"standard"}
    /\ ListedUnder("Chevrolet") = {"standard"}

C28_Witness ==
  /\ EstimateDone
  /\ est_in.service_key = "brake_pads"
  /\ est_in.car_category = "Lexus"
  /\ est_in.zone = "Umoja"
  /\ IsStandard(est_ret.value)
  /\ est_ret.value = EstimateWith("Umoja", "Toyota")
  /\ est_ret.value # EstimateWith("Umoja", "Lexus (RX, NX)")

-----------------------------------------------------------------------------
(* Properties of the default location *)

\* C27: the location "Nairobi", the default of the diagnose handler, does not
\* take the fallback: "nairobi" is inside the estate name "Nairobi West", so
\* the road is Langata Road, the band 0-5km, the boda range the band's
\* [150, 250] times Langata Road's traffic factor (1.3 at peak, giving
\* [195, 325]), and never road "unknown" with [300, 500].
C27_DefaultLocationResolves ==
  (ResolveDone /\ boda_in.location = "Nairobi") =>
    /\ Contains("nairobi west", Lower(boda_in.location))
    /\ boda_ret.road = "Langata Road"
    /\ boda_ret.distance_km = "0-5km"
    /\ boda_ret.road # "unknown"
    /\ boda_ret.boda_cost # <<300, 500>>
    /\ boda_in.time_of_day = "peak"
         => (boda_ret.traffic_factor = F_1_3 /\ boda_ret.boda_cost = <<195, 325>>)
    /\ boda_in.time_of_day # "peak"
         => (boda_ret.traffic_factor = F_1_0 /\ boda_ret.boda_cost = <<150, 250>>)

C27_Witness ==
  /\ ResolveDone
  /\ boda_in.location = "Nairobi"
  /\ boda_in.time_of_day = "peak"
  /\ boda_ret.road = "Langata Road"
  /\ boda_ret.boda_cost = <<195, 325>>

-----------------------------------------------------------------------------
(* Properties of the shadowed template *)

\* catalog position of the template with the given id
PositionOf(id) == CHOOSE i \in 1..Len(Templates) : Templates[i].id = id

\* the texts C29 is about
GrindingOnly(text) ==
  /\ Contains(Lower(text), "grinding noise")
  /\ ~Contains(Lower(text), "metal on metal")
  /\ ~Contains(Lower(text), "scraping sound")

\* C29 as stated: for every text that contains "grinding noise" but neither
\* "metal on metal" nor "scraping sound", the urgent grinding_noise template is
\* never returned; the returned template is brake_noise (not urgent) or a
\* template whose score is strictly higher than the one grinding_noise gets.
C29_ShadowedByHigherScore ==
  (MatchDone /\ GrindingOnly(match_in)) =>
    LET scores == ScoreVector(match_in)
        returned == PositionOf(match_ret.template.id)
    IN /\ match_ret.status = "SUCCESS"
       /\ match_ret.template.id # "grinding_noise"
       /\ \/ match_ret.template.id = "brake_noise"
          \/ scores[returned] > scores[PositionOf("grinding_noise")]

\* C29 amended: for the same texts the urgent grinding_noise template is never
\* returned; the returned template is brake_noise (not urgent), or a template
\* with a score strictly higher than brake_noise's, or a template placed
\* before brake_noise in the catalog whose score equals brake_noise's.
C29_ShadowedUrgentTemplate ==
  (MatchDone /\ GrindingOnly(match_in)) =>
    LET scores == ScoreVector(match_in)
        returned == PositionOf(match_ret.template.id)
        brake == PositionOf("brake_noise")
    IN /\ match_ret.status = "SUCCESS"
       /\ match_ret.template.id # "grinding_noise"
       /\ brake < PositionOf("grinding_noise")
       /\ ~Templates[brake].urgent /\ Templates[PositionOf("grinding_noise")].urgent
       /\ scores[PositionOf("grinding_noise")] = 1
       /\ \/ match_ret.template.id = "brake_noise"
          \/ scores[returned] > scores[brake]
          \/ (returned < brake /\ scores[returned] = scores[brake])

C29_Witness ==
  /\ MatchDone
  /\ match_in = "My car won't start GRINDING NOISE"
  /\ match_ret.status = "SUCCESS"
  /\ match_ret.template.id = "battery_dead"
  /\ ScoreVector(match_in)[PositionOf("battery_dead")] = 1
  /\ ScoreVector(match_in)[PositionOf("grinding_noise")] = 1

-----------------------------------------------------------------------------
(* Properties of the diagnose flow *)

\* what a response says of the price: its pricing estimate, None for a
\* response that holds none
PricingOf(body) ==
  IF "pricing" \in DOMAIN body THEN [estimate |-> body.pricing.estimate] ELSE None

\* C26: no template's price_service is mobile_callout, pick_and_drop or
\* towing, so the handler never asks for an estimate that looks the location
\* up, and two requests that differ only in time_of_day or timestamp get the
\* same pricing estimate in their responses.
C26_EstimateIgnoresTimeOfDay ==
  DiagnoseDone =>
    /\ \A i \in 1..Len(Templates) :
         Templates[i].price_service \notin {"mobile_callout", "pick_and_drop", "towing"}
    /\ Priced => (/\ est_in.service_key \notin {"mobile_callout", "pick_and_drop", "towing"}
                  /\ est_ret.value.type \in {"standard", "DIAGNOSIS_REQUIRED"})
    /\ \A time_of_day \in {None, [str |-> "peak"], [str |-> "night"]},
          timestamp \in TimestampInputs :
         PricingOf(diagnose([diag_in EXCEPT !.time_of_day = time_of_day,
                                            !.timestamp = timestamp]).body)
           = PricingOf(diag_ret.body)

\* C30: every template's recommended_service is a key of the business-model
\* services table, so for a matched template the handler's lookup of the
\* service's name, description and response time succeeds: no response is the
\* 500 of a missing key, and a SUCCESS response carries the table's entries.
C30_RecommendedServiceKnown ==
  DiagnoseDone =>
    /\ \A i \in 1..Len(Templates) :
         /\ Templates[i].recommended_service \in {"mobile_mechanic", "pick_and_drop", "car_specific"}
         /\ Templates[i].recommended_service \in DOMAIN BusinessServices
    /\ diag_ret.code = 500
         => \A i \in 1..Len(Templates) :
               diag_ret.body.error # "'" \o Templates[i].recommended_service \o "'"
    /\ (diag_ret.code = 200 /\ diag_ret.body.status = "SUCCESS")
         => LET recommendation == diag_ret.body.recommendation
            IN /\ recommendation.service \in DOMAIN BusinessServices
               /\ recommendation.service_name = BusinessServices[recommendation.service].name
               /\ recommendation.service_description
                    = BusinessServices[recommendation.service].description
               /\ recommendation.response_time
                    = BusinessServices[recommendation.service].response_time

C30_Witness ==
  /\ DiagnoseDone
  /\ diag_in.problem_description = [str |-> "gears slipping"]
  /\ diag_ret.code = 200
  /\ diag_ret.body.status = "SUCCESS"
  /\ diag_ret.body.diagnosis.template = "transmission_slip"
  /\ diag_ret.body.recommendation.service = "car_specific"
  /\ diag_ret.body.recommendation.service_name = "Car-Specific Specialist"

-----------------------------------------------------------------------------
(* Several calls on one knowledge base *)

\* load_skill_files: the tables, built anew by every call
load_skill_files ==
  [templates |-> Templates, road_network |-> RoadNetwork, zones |-> Zones,
   car_categories |-> CarCategories, services |-> Services]

\* query_knowledge_base sorting knowledge_base['templates'] itself by score
\* (stable, descending) instead of the list of matches it built
TemplatesAfterQuery_sortinplace(templates, text) ==
  LET sorted == SortByScore(ScanTemplates_keepzero(templates, 1, Lower(text), <<>>), 1, <<>>)
  IN [i \in 1..Len(templates) |-> sorted[i].template]

\* knowledge_base['templates'] after query_knowledge_base returned: the
\* function iterates over the list, appends to its own template_matches and
\* sorts that list (lines 1203-1221); the table is left as it was
TemplatesAfterQuery(templates, text) == templates

MaxCalls == 3

CallTexts == {"grinding noise", "it is metal on metal", "hello there"}

CallLocations == {[location |-> "Nairobi", time_of_day |-> "peak"],
                  [location |-> "Mars", time_of_day |-> "normal"]}

CallEstimates ==
  {[service_key |-> "brake_pads", zone |-> "karen", car_category |-> "BMW",
    location |-> None, time_of_day |-> "normal"],
   [service_key |-> "mobile_callout", zone |-> "Nairobi", car_category |-> "Toyota",
    location |-> [str |-> "Kahawa Sukari"], time_of_day |-> "peak"]}

InitCalls ==
  /\ pc = "call"
  /\ kb = load_skill_files
  /\ calls = <<>>
  /\ reqs = <<>>
  /\ match_in = "" /\ match_ret = None
  /\ boda_in = [location |-> "", time_of_day |-> "normal"] /\ boda_ret = None
  /\ est_in = None /\ est_ret = None
  /\ diag_in = None /\ diag_ret = None

CallMatch ==
  /\ Len(calls) < MaxCalls
  /\ \E text \in CallTexts :
        /\ calls' = Append(calls, [op |-> "match", args |-> text,
                                   result |-> query_knowledge_base(text, kb.templates)])
        /\ kb' = [kb EXCEPT !.templates = TemplatesAfterQuery(kb.templates, text)]
  /\ UNCHANGED <<pc, match_in, match_ret, boda_in, boda_ret, est_in, est_ret, diag_in, diag_ret, reqs>>

CallResolve ==
  /\ Len(calls) < MaxCalls
  /\ \E args \in CallLocations :
        calls' = Append(calls, [op |-> "resolve", args |-> args,
                                result |-> calculate_boda_pricing(args.location, args.time_of_day,
                                                                  kb.road_network)])
  /\ UNCHANGED <<pc, match_in, match_ret, boda_in, boda_ret, est_in, est_ret, diag_in, diag_ret,
                 kb, reqs>>

CallEstimate ==
  /\ Len(calls) < MaxCalls
  /\ \E args \in CallEstimates :
        calls' = Append(calls, [op |-> "estimate", args |-> args,
                                result |-> calculate_price_estimate(args.service_key, args.zone,
                                                                    args.car_category, args.location,
                                                                    args.time_of_day)])
  /\ UNCHANGED <<pc, match_in, match_ret, boda_in, boda_ret, est_in, est_ret, diag_in, diag_ret,
                 kb, reqs>>

NextCalls == CallMatch \/ CallResolve \/ CallEstimate

SpecCalls == InitCalls /\ [][NextCalls]_vars

-----------------------------------------------------------------------------
(* Concurrent diagnose requests *)

NumRequests == 2

\* a request body with only the given description and timestamp
RequestOf(problem_description, timestamp) ==
  [problem_description |-> problem_description, car_make |-> None, car_model |-> None,
   year |-> None, mileage |-> None, location |-> None, time_of_day |-> None,
   timestamp |-> timestamp]

\* one request of each outcome: 400, DATA_MISSING, SUCCESS and 500
ConcurrentRequests ==
  {RequestOf(None, None),
   RequestOf([str |-> "hello there"], None),
   RequestOf([str |-> "it is metal on metal"], [str |-> "2025-11-05T08:30:00"]),
   RequestOf([str |-> "gears slipping"], None)}

\* the locals of a handler that has not run yet
NewRequest(data) ==
  [data |-> data, at |-> "start", kb |-> None, diagnosis_result |-> None, response |-> None]

InitConcurrent ==
  /\ pc = "call"
  /\ reqs \in [1..NumRequests -> {NewRequest(data) : data \in ConcurrentRequests}]
  /\ kb = None /\ calls = <<>>
  /\ match_in = "" /\ match_ret = None
  /\ boda_in = [location |-> "", time_of_day |-> "normal"] /\ boda_ret = None
  /\ est_in = None /\ est_ret = None
  /\ diag_in = None /\ diag_ret = None

\* lines 1478-1482: the request body is read and validated
Validate(r) ==
  /\ reqs[r].at = "start"
  /\ reqs' = [reqs EXCEPT ![r] =
       IF Get(reqs[r].data, "problem_description", "") = ""
       THEN [@ EXCEPT !.at = "done",
                      !.response = [code |-> 400,
                                    body |-> [error |-> "problem_description is required"]]]
       ELSE [@ EXCEPT !.at = "validated"]]

\* line 1485: the handler builds its own knowledge base
Load(r) ==
  /\ reqs[r].at = "validated"
  /\ reqs' = [reqs EXCEPT ![r] = [@ EXCEPT !.at = "loaded", !.kb = load_skill_files]]

\* line 1488
Query(r) ==
  /\ reqs[r].at = "loaded"
  /\ LET text == reqs[r].data.problem_description.str
     IN reqs' = [reqs EXCEPT ![r] =
          [@ EXCEPT !.at = "queried",
                    !.diagnosis_result = query_knowledge_base(text, reqs[r].kb.templates),
                    !.kb = [reqs[r].kb EXCEPT !.templates =
                                TemplatesAfterQuery(reqs[r].kb.templates, text)]]]

\* lines 1490-1602: pricing and the response
Respond(r) ==
  /\ reqs[r].at = "queried"
  /\ \E res \in {DiagnoseMatched(reqs[r].data, reqs[r].diagnosis_result)} :
        reqs' = [reqs EXCEPT ![r] =
                   [@ EXCEPT !.at = "done", !.response = [code |-> res.code, body |-> res.body]]]

NextConcurrent ==
  \E r \in 1..NumRequests :
     /\ Validate(r) \/ Load(r) \/ Query(r) \/ Respond(r)
     /\ UNCHANGED <<pc, match_in, match_ret, boda_in, boda_ret, est_in, est_ret, diag_in, diag_ret,
                    kb, calls>>

SpecConcurrent == InitConcurrent /\ [][NextConcurrent]_vars

\* the response of a request that runs alone
AloneResponse(data) ==
  CHOOSE response \in {[code |-> res.code, body |-> res.body] : res \in {diagnose(data)}} : TRUE

====
